---- MODULE Spec2Model ----
(***************************************************************************)
(* State-machine model of the tick-driven behavior-execution engine:       *)
(* the Node/Action execution contract, the behavior-tree node catalog and  *)
(* BehaviorTree root (src/src/BehaviorTree.ts), and the GOAP planner and   *)
(* agent (src/src/Goap.ts).                                                *)
(***************************************************************************)
EXTENDS Integers, Sequences, FiniteSets, TLC

VARIABLES
    tree,           \* index into Trees: the node graph the BehaviorTree was built from
    ns,             \* node id -> private fields of that node (state_, current_index_, ...)
    active_nodes_,  \* BehaviorTree.active_nodes_
    trace,          \* hook/entry events of the last operation, in call order
    ret,            \* status returned by the last Tick ("-" after Halt / construction)
    op,             \* name of the last operation
    mid_running,    \* nodes RUNNING when root_.Tick returned inside the last BehaviorTree.Tick
    frame,          \* parity of the number of BehaviorTree operations performed
    hist,           \* events of every Tick/Halt called directly on the node under test;
                    \* for a tree ticked on a clock, the time elapsed since its child completed
    astate,         \* Goap action id -> Action.state_
    ahist,          \* events of every Tick/Halt called directly on the action under test
    world_state_,   \* Agent.world_state_: key -> value
    current_plan_,  \* Agent.current_plan_: <<>> (undefined) or <<plan>>
    current_goal_,  \* Agent.current_goal_: 0 (undefined) or a goal id
    goals_,         \* Agent.goals_: sequence of goal ids
    agent_active_nodes_,  \* Agent.active_nodes_
    planning_cooldown_,   \* Agent.planning_cooldown_
    atrace,         \* hook/entry events of the last Agent operation
    aop,            \* name of the last Agent operation
    available_actions_,  \* Agent.available_actions_, the list handed to Planner.CreatePlan
    max_iterations_,     \* Planner.max_iterations_
    planned,        \* the last direct call of Planner.CreatePlan: arguments and search result
    calls,          \* the calls of Planner.CreatePlan in progress, the innermost last
    states_,        \* FSM.states_: the registered state ids
    transitions_,   \* FSM.transitions_: state id -> list of transitions
    event_transitions_,  \* FSM.event_transitions_: state id -> event name -> list
    any_transitions_,    \* FSM.any_transitions_
    current_state_, \* FSM.current_state_
    fcall,          \* the last FSM call: its name, arguments and the state id on entry
    ftrace,         \* state callbacks and id changes of the last FSM call, in order
    heap,           \* the tables (arrays) allocated so far; a reference is an index
    original,       \* data_ of a WorldState built by the user: key -> value
    other,          \* data_ of a second WorldState: a clone of original or built apart
    cloned,         \* other was obtained by original.Clone()
    wcall,          \* the last WorldState call: its name and the object it was made on
    build           \* an IfThenElse or WhileDoElse being built: its class, the size of
                    \* children_, state_, whether a BehaviorTree holds it, the error thrown

btVars == <<tree, ns, active_nodes_, trace, ret, op, mid_running, frame>>
unitVars == <<hist, ahist>>
plannerVars == <<available_actions_, max_iterations_, planned, calls>>
agentVars == <<world_state_, current_plan_, current_goal_, goals_, agent_active_nodes_,
               planning_cooldown_, atrace, aop, plannerVars>>
goapVars == <<astate, world_state_, current_plan_, current_goal_, goals_,
             agent_active_nodes_, planning_cooldown_, atrace, aop, plannerVars>>

wsVars == <<heap, original, other, cloned, wcall>>
buildVars == <<build>>

(* everything but the FSM *)
otherVars == <<btVars, unitVars, goapVars, wsVars, buildVars>>

fsmVars == <<states_, transitions_, event_transitions_, any_transitions_, current_state_,
             fcall, ftrace>>

vars == <<tree, ns, active_nodes_, trace, ret, op, mid_running, frame, hist, astate, ahist,
          world_state_, current_plan_, current_goal_, goals_, agent_active_nodes_,
          planning_cooldown_, atrace, aop, available_actions_, max_iterations_, planned,
          calls,
          states_, transitions_, event_transitions_, any_transitions_, current_state_,
          fcall, ftrace, heap, original, other, cloned, wcall, build>>

-----------------------------------------------------------------------------
(* ENodeStatus, ENodeState, EParallelPolicy, ETimeoutBehavior *)

SUCCESS == "SUCCESS"
FAILURE == "FAILURE"
RUNNING == "RUNNING"
ENodeStatus == {SUCCESS, FAILURE, RUNNING}

IDLE == "IDLE"
HALTED == "HALTED"
ENodeState == {IDLE, RUNNING, HALTED}

ONE == "ONE"
ALL == "ALL"

NONE == "-"

-----------------------------------------------------------------------------
(* Bounds *)

MaxDt == 2
MaxHist == 8

-----------------------------------------------------------------------------
(* Node graphs.  A graph is a sequence of node descriptions; node 1 is the  *)
(* root.  p1/p2 hold the constructor parameters of the kind.                *)

Nd(kind, children, p1, p2) ==
    [kind |-> kind, children_ |-> children, p1 |-> p1, p2 |-> p2]

Leaf(kind) == Nd(kind, <<>>, 0, 0)

Trees == <<
    \* 1: a single user-defined Node subclass (OnStart and OnTick overridden)
    << Leaf("Custom") >>,
    \* 2: Sequence of three actions
    << Nd("Sequence", <<2, 3, 4>>, 0, 0), Leaf("Action"), Leaf("Action"), Leaf("Action") >>,
    \* 3: ReactiveSequence of three actions
    << Nd("ReactiveSequence", <<2, 3, 4>>, 0, 0), Leaf("Action"), Leaf("Action"), Leaf("Action") >>,
    \* 4: ReactiveFallback of three actions
    << Nd("ReactiveFallback", <<2, 3, 4>>, 0, 0), Leaf("Action"), Leaf("Action"), Leaf("Action") >>,
    \* 5: Fallback(Sequence(a, b), c)
    << Nd("Fallback", <<2, 5>>, 0, 0), Nd("Sequence", <<3, 4>>, 0, 0),
       Leaf("Action"), Leaf("Action"), Leaf("Action") >>,
    \* 6..9: Parallel under every policy pair
    << Nd("Parallel", <<2, 3, 4>>, ONE, ALL), Leaf("Action"), Leaf("Action"), Leaf("Action") >>,
    << Nd("Parallel", <<2, 3, 4>>, ALL, ONE), Leaf("Action"), Leaf("Action"), Leaf("Action") >>,
    << Nd("Parallel", <<2, 3, 4>>, ONE, ONE), Leaf("Action"), Leaf("Action"), Leaf("Action") >>,
    << Nd("Parallel", <<2, 3, 4>>, ALL, ALL), Leaf("Action"), Leaf("Action"), Leaf("Action") >>,
    \* 10: Sequence(FireAndForget(a), b)
    << Nd("Sequence", <<2, 4>>, 0, 0), Nd("FireAndForget", <<3>>, 0, 0),
       Leaf("Action"), Leaf("Action") >>,
    \* 11: ReactiveSequence(a, Sequence(b, c))
    << Nd("ReactiveSequence", <<2, 3>>, 0, 0), Leaf("Action"),
       Nd("Sequence", <<4, 5>>, 0, 0), Leaf("Action"), Leaf("Action") >>,
    \* 12: Fallback(Inverter(a), ForceFailure(b), ForceSuccess(c))
    << Nd("Fallback", <<2, 4, 6>>, 0, 0), Nd("Inverter", <<3>>, 0, 0), Leaf("Action"),
       Nd("ForceFailure", <<5>>, 0, 0), Leaf("Action"),
       Nd("ForceSuccess", <<7>>, 0, 0), Leaf("Action") >>,
    \* 13: MemorySequence(a, Timeout(b, 3, FAILURE))
    << Nd("MemorySequence", <<2, 3>>, 0, 0), Leaf("Action"),
       Nd("Timeout", <<4>>, 3, FAILURE), Leaf("Action") >>,
    \* 14: FireAndForget(a) as the root
    << Nd("FireAndForget", <<2>>, 0, 0), Leaf("Action") >>,
    \* 15: MemorySequence of three actions
    << Nd("MemorySequence", <<2, 3, 4>>, 0, 0), Leaf("Action"), Leaf("Action"), Leaf("Action") >>,
    \* 16, 17: RetryUntilFailure(a, 2) and RetryUntilSuccess(a, 2)
    << Nd("RetryUntilFailure", <<2>>, 2, 0), Leaf("Action") >>,
    << Nd("RetryUntilSuccess", <<2>>, 2, 0), Leaf("Action") >>,
    \* 18, 19: RetryUntilFailure(a) and RetryUntilSuccess(a), max_attempts = -1
    << Nd("RetryUntilFailure", <<2>>, -1, 0), Leaf("Action") >>,
    << Nd("RetryUntilSuccess", <<2>>, -1, 0), Leaf("Action") >>,
    \* 20, 21: Cooldown(a, 3) and Cooldown(a, 3, true)
    << Nd("Cooldown", <<2>>, 3, FALSE), Leaf("Action") >>,
    << Nd("Cooldown", <<2>>, 3, TRUE), Leaf("Action") >>,
    \* 22, 23: IfThenElse with 3 and with 2 children
    << Nd("IfThenElse", <<2, 3, 4>>, 0, 0), Leaf("Action"), Leaf("Action"), Leaf("Action") >>,
    << Nd("IfThenElse", <<2, 3>>, 0, 0), Leaf("Action"), Leaf("Action") >>,
    \* 24, 25: WhileDoElse with 3 and with 2 children
    << Nd("WhileDoElse", <<2, 3, 4>>, 0, 0), Leaf("Action"), Leaf("Action"), Leaf("Action") >>,
    << Nd("WhileDoElse", <<2, 3>>, 0, 0), Leaf("Action"), Leaf("Action") >>,
    \* 26: Cooldown(Sequence(a, b), 3)
    << Nd("Cooldown", <<2>>, 3, FALSE), Nd("Sequence", <<3, 4>>, 0, 0),
       Leaf("Action"), Leaf("Action") >>
>>

T == tree
Nodes == 1..Len(T)
root_ == 1

kind(n) == T[n].kind
children_(n) == T[n].children_
child_(n) == T[n].children_[1]
size(n) == Len(T[n].children_)
success_policy_(n) == T[n].p1
failure_policy_(n) == T[n].p2
timeout_s_(n) == T[n].p1
max_attempts_(n) == T[n].p1
cooldown_s_(n) == T[n].p1
reset_on_halt_(n) == T[n].p2
behavior_(n) == T[n].p2

LeafKinds == {"Action", "Custom"}
CompositeKinds == {"Sequence", "ReactiveSequence", "MemorySequence", "Fallback",
                   "ReactiveFallback", "Parallel", "IfThenElse", "WhileDoElse"}
DecoratorKinds == {"Inverter", "ForceSuccess", "ForceFailure", "FireAndForget", "Timeout",
                  "RetryUntilSuccess", "RetryUntilFailure", "Cooldown"}

LeavesOf(t) == {n \in 1..Len(t) : t[n].kind \in LeafKinds}
CustomOf(t) == {n \in 1..Len(t) : t[n].kind = "Custom"}

(* Field initialisers of the node classes *)
NewNode == [state_ |-> IDLE, current_index_ |-> 0, time_left_ |-> 0, current_attempts_ |-> 0,
            current_child_ |-> -1]

-----------------------------------------------------------------------------
(* Evaluation context threaded through one operation: the node fields, the *)
(* Set<Node> passed down as active_nodes, the event log, the status being  *)
(* returned (and whether the current Tick has already returned), the       *)
(* elapsed time and the results the user callbacks give when they are      *)
(* called in this operation.                                               *)

Ctx(nodes, dt, cb, st) ==
    [ns |-> nodes, active |-> {}, log |-> <<>>, ret |-> NONE, returned |-> FALSE,
     dt |-> dt, cb |-> cb, st |-> st]

Log(c, ev, n, x) == [c EXCEPT !.log = Append(@, <<ev, n, x>>)]
SetState(c, n, s) == [c EXCEPT !.ns[n].state_ = s]
Return(c, status) == [c EXCEPT !.ret = status]

IsRunning(c, n) == c.ns[n].state_ = RUNNING

RECURSIVE Tick(_, _)
RECURSIVE OnTick(_, _)
RECURSIVE Halt(_, _)
RECURSIVE OnHalt(_, _)
RECURSIVE HaltChildren(_, _, _, _)
RECURSIVE SequenceLoop(_, _, _)
RECURSIVE ReactiveSequenceLoop(_, _, _)
RECURSIVE MemorySequenceLoop(_, _, _)
RECURSIVE FallbackLoop(_, _, _)
RECURSIVE ReactiveFallbackLoop(_, _, _)
RECURSIVE ParallelLoop(_, _, _, _, _)
RECURSIVE IfThenElseOnTick(_, _)
RECURSIVE WhileDoElseOnTick(_, _)

(* Node.OnStart and its overrides *)
OnStartStatus(n, c) == IF kind(n) = "Custom" THEN c.st[n] ELSE RUNNING

OnStart(n, c) ==
    Log(Return(CASE kind(n) \in {"Sequence", "Fallback"} ->
                       [c EXCEPT !.ns[n].current_index_ = 0]
                 [] kind(n) = "Timeout" ->
                       [c EXCEPT !.ns[n].time_left_ = timeout_s_(n)]
                 [] kind(n) = "RetryUntilSuccess" ->
                       [c EXCEPT !.ns[n].current_attempts_ = 0]
                 [] kind(n) \in {"IfThenElse", "WhileDoElse"} ->
                       [c EXCEPT !.ns[n].current_child_ = -1]
                 [] OTHER -> c,
               OnStartStatus(n, c)),
        "OnStart", n, OnStartStatus(n, c))

(* Node.OnFinish and its overrides *)
OnFinish(n, c, status) ==
    Log(IF kind(n) = "Cooldown" THEN [c EXCEPT !.ns[n].time_left_ = cooldown_s_(n)] ELSE c,
        "OnFinish", n, status)

(* Composite.OnHalt / Composite.HaltOtherChildren: the loop over children_ *)
(* from position i (1-based), skipping except_child.                       *)
HaltChildren(n, i, except_child, c) ==
    IF i > size(n) THEN c
    ELSE HaltChildren(n, i + 1, except_child,
                      IF children_(n)[i] # except_child /\ IsRunning(c, children_(n)[i])
                      THEN Halt(children_(n)[i], c) ELSE c)

HaltOtherChildren(n, except_child, c) == HaltChildren(n, 1, except_child, c)

(* Node.OnHalt, Composite.OnHalt, Decorator.OnHalt; c has the call logged *)
SuperOnHalt(n, c) ==
    IF kind(n) \in CompositeKinds \/ (kind(n) \in DecoratorKinds /\ IsRunning(c, child_(n)))
    THEN HaltChildren(n, 1, 0, c)
    ELSE c

(* IfThenElse.OnHalt and Cooldown.OnHalt after super.OnHalt() returned into h *)
AfterSuperOnHalt(n, h) ==
    CASE kind(n) = "IfThenElse" -> [h EXCEPT !.ns[n].current_child_ = -1]
      [] kind(n) = "Cooldown" /\ reset_on_halt_(n) ->
            [h EXCEPT !.ns[n].time_left_ = cooldown_s_(n)]
      [] OTHER -> h

OnHaltBody(n, c) == AfterSuperOnHalt(n, SuperOnHalt(n, c))

OnHalt(n, c) == OnHaltBody(n, Log(c, "OnHalt", n, NONE))

(* mutant: Halt forgets to reset state_ to IDLE after OnHalt *)
HaltLeavesHalted(n, c) ==
    IF c.ns[n].state_ # RUNNING THEN Log(c, "Halt", n, c.ns[n].state_)
    ELSE OnHalt(n, SetState(Log(c, "Halt", n, c.ns[n].state_), n, HALTED))

(* Node.Halt *)
Halt(n, c) ==
    IF c.ns[n].state_ # RUNNING THEN Log(c, "Halt", n, c.ns[n].state_)
    ELSE SetState(OnHalt(n, SetState(Log(c, "Halt", n, c.ns[n].state_), n, HALTED)),
                  n, IDLE)

(* Node.Tick, lines 46-50: after OnStart returned into s *)
AfterOnStart(n, s) ==
    IF s.ret # RUNNING
    THEN [Return(OnFinish(n, SetState(s, n, IDLE), s.ret), s.ret) EXCEPT !.returned = TRUE]
    ELSE s

(* Node.Tick, lines 42-51: the IDLE branch *)
TickIdle(n, c) ==
    IF c.ns[n].state_ = IDLE
    THEN AfterOnStart(n, OnStart(n, SetState(c, n, RUNNING)))
    ELSE c

(* mutant: a finished node is not put back to IDLE *)
AfterOnTickStaysRunning(n, t) ==
    IF t.ret = RUNNING THEN [t EXCEPT !.active = @ \cup {n}]
    ELSE Return(OnFinish(n, t, t.ret), t.ret)

(* Node.Tick, lines 56-65: after OnTick returned into t *)
AfterOnTick(n, t) ==
    IF t.ret = RUNNING THEN [t EXCEPT !.active = @ \cup {n}]
    ELSE Return(OnFinish(n, SetState(t, n, IDLE), t.ret), t.ret)

(* Node.Tick, lines 53-74: the RUNNING and HALTED branches, skipped when *)
(* the IDLE branch has returned                                          *)
TickRunning(n, c) ==
    IF c.returned THEN c
    ELSE IF c.ns[n].state_ = RUNNING THEN AfterOnTick(n, OnTick(n, c))
    ELSE IF c.ns[n].state_ = HALTED THEN Return(SetState(c, n, IDLE), FAILURE)
    ELSE Return(c, FAILURE)

LogReturn(n, r) == [Log(r, "Return", n, r.ret) EXCEPT !.returned = FALSE]

(* mutant: the first OnTick is deferred to the frame after OnStart *)
DeferredStart(n, s) == IF s.returned THEN s ELSE [s EXCEPT !.active = @ \cup {n}]

TickDefersFirstOnTick(n, c) ==
    LogReturn(n, IF c.ns[n].state_ = IDLE
                 THEN DeferredStart(n, TickIdle(n, Log(c, "Tick", n, c.ns[n].state_)))
                 ELSE TickRunning(n, Log(c, "Tick", n, c.ns[n].state_)))

(* Node.Tick *)
Tick(n, c) ==
    LogReturn(n, TickRunning(n, TickIdle(n, Log(c, "Tick", n, c.ns[n].state_))))

(* Sequence.OnTick: the loop from index i (0-based, as in the source); c1 *)
(* is the context after children_[i].Tick                                 *)
(* mutant: the index of the RUNNING child is not remembered *)
SequenceStepForgetsIndex(n, i, c1) ==
    IF c1.ret = RUNNING THEN Return(c1, RUNNING)
    ELSE IF c1.ret = FAILURE THEN Return(c1, FAILURE)
    ELSE SequenceLoop(n, i + 1, c1)

SequenceStep(n, i, c1) ==
    IF c1.ret = RUNNING THEN Return([c1 EXCEPT !.ns[n].current_index_ = i], RUNNING)
    ELSE IF c1.ret = FAILURE THEN Return(c1, FAILURE)
    ELSE SequenceLoop(n, i + 1, c1)

SequenceLoop(n, i, c) ==
    IF i >= size(n) THEN Return(c, SUCCESS)
    ELSE SequenceStep(n, i, Tick(children_(n)[i + 1], c))

(* mutant: the siblings of the RUNNING child are not halted *)
ReactiveSequenceStepNoHalt(n, i, c1) ==
    IF c1.ret = RUNNING THEN Return(c1, RUNNING)
    ELSE IF c1.ret = FAILURE THEN Return(c1, FAILURE)
    ELSE ReactiveSequenceLoop(n, i + 1, c1)

(* ReactiveSequence.OnTick *)
ReactiveSequenceStep(n, i, c1) ==
    IF c1.ret = RUNNING
    THEN Return(HaltOtherChildren(n, children_(n)[i + 1], c1), RUNNING)
    ELSE IF c1.ret = FAILURE THEN Return(c1, FAILURE)
    ELSE ReactiveSequenceLoop(n, i + 1, c1)

ReactiveSequenceLoop(n, i, c) ==
    IF i >= size(n) THEN Return(c, SUCCESS)
    ELSE ReactiveSequenceStep(n, i, Tick(children_(n)[i + 1], c))

(* MemorySequence.OnTick *)
MemorySequenceStep(n, i, c1) ==
    IF c1.ret = RUNNING THEN Return(c1, RUNNING)
    ELSE IF c1.ret = FAILURE THEN Return(c1, FAILURE)
    ELSE MemorySequenceLoop(n, i + 1, c1)

MemorySequenceSetIndex(n, i, t) == [t EXCEPT !.ns[n].current_index_ = i]

MemorySequenceLoop(n, i, c) ==
    IF i >= size(n) THEN Return([c EXCEPT !.ns[n].current_index_ = 0], SUCCESS)
    ELSE MemorySequenceStep(n, i,
             MemorySequenceSetIndex(n, i, Tick(children_(n)[i + 1], c)))

(* Fallback.OnTick *)
FallbackStep(n, i, c1) ==
    IF c1.ret = RUNNING THEN Return([c1 EXCEPT !.ns[n].current_index_ = i], RUNNING)
    ELSE IF c1.ret = SUCCESS THEN Return(c1, SUCCESS)
    ELSE FallbackLoop(n, i + 1, c1)

FallbackLoop(n, i, c) ==
    IF i >= size(n) THEN Return(c, FAILURE)
    ELSE FallbackStep(n, i, Tick(children_(n)[i + 1], c))

(* ReactiveFallback.OnTick *)
ReactiveFallbackStep(n, i, c1) ==
    IF c1.ret \in {SUCCESS, RUNNING}
    THEN Return(HaltOtherChildren(n, children_(n)[i + 1], c1), c1.ret)
    ELSE ReactiveFallbackLoop(n, i + 1, c1)

ReactiveFallbackLoop(n, i, c) ==
    IF i >= size(n) THEN Return(c, FAILURE)
    ELSE ReactiveFallbackStep(n, i, Tick(children_(n)[i + 1], c))

(* Parallel.OnTick: the loop over children_ from position i (1-based) with *)
(* the two counters, then the ALL-policy checks after the loop.            *)
(* mutant: a ONE policy decides without halting the other children *)
ParallelStepNoHalt(n, i, success_count, failure_count, c1) ==
    IF \/ c1.ret = SUCCESS /\ success_policy_(n) = ONE
       \/ c1.ret = FAILURE /\ failure_policy_(n) = ONE
    THEN Return(c1, c1.ret)
    ELSE ParallelLoop(n, i + 1,
                      IF c1.ret = SUCCESS THEN success_count + 1 ELSE success_count,
                      IF c1.ret = FAILURE THEN failure_count + 1 ELSE failure_count,
                      c1)

ParallelStep(n, i, success_count, failure_count, c1) ==
    IF \/ c1.ret = SUCCESS /\ success_policy_(n) = ONE
       \/ c1.ret = FAILURE /\ failure_policy_(n) = ONE
    THEN Return(HaltOtherChildren(n, children_(n)[i], c1), c1.ret)
    ELSE ParallelLoop(n, i + 1,
                      IF c1.ret = SUCCESS THEN success_count + 1 ELSE success_count,
                      IF c1.ret = FAILURE THEN failure_count + 1 ELSE failure_count,
                      c1)

ParallelLoop(n, i, success_count, failure_count, c) ==
    IF i > size(n) THEN
        IF success_policy_(n) = ALL /\ success_count = size(n) THEN Return(c, SUCCESS)
        ELSE IF failure_policy_(n) = ALL /\ failure_count = size(n) THEN Return(c, FAILURE)
        ELSE Return(c, RUNNING)
    ELSE ParallelStep(n, i, success_count, failure_count, Tick(children_(n)[i], c))

(* IfThenElse.OnTick and WhileDoElse.OnTick, lines 414-433 and 477-491: the   *)
(* branch taken on the status the condition child returned into c1            *)
TickBranch(n, branch, c1) ==
    Tick(children_(n)[branch + 1], [c1 EXCEPT !.ns[n].current_child_ = branch])

ExecuteBranch(n, c1) ==
    IF c1.ret = RUNNING THEN Return(c1, RUNNING)
    ELSE IF c1.ret = SUCCESS THEN TickBranch(n, 1, c1)
    ELSE IF size(n) = 3 THEN TickBranch(n, 2, c1)
    ELSE Return(c1, FAILURE)

(* IfThenElse.OnTick, lines 400-406: b is the context after the Tick of the *)
(* branch that was running                                                  *)
IfThenElseContinue(n, b) ==
    IF b.ret # RUNNING THEN [b EXCEPT !.ns[n].current_child_ = -1] ELSE b

(* mutant: the condition child is evaluated on every tick *)
IfThenElseOnTickUncommitted(n, c) == ExecuteBranch(n, Tick(children_(n)[1], c))

(* IfThenElse.OnTick *)
IfThenElseOnTick(n, c) ==
    IF c.ns[n].current_child_ > 0
    THEN IfThenElseContinue(n, Tick(children_(n)[c.ns[n].current_child_ + 1], c))
    ELSE ExecuteBranch(n, Tick(children_(n)[1], c))

(* WhileDoElse.OnTick, lines 466-475: the switch to expected_child, h being *)
(* the context after the Halt of the branch that was running                *)
WhileDoElseSwitched(n, expected_child, h) ==
    IF expected_child = 2 /\ size(n) < 3
    THEN Return([h EXCEPT !.ns[n].current_child_ = expected_child], FAILURE)
    ELSE TickBranch(n, expected_child, h)

(* mutant: the branch that was running is not halted when the other is selected *)
WhileDoElseReevaluatedNoHalt(n, expected_child, c1) ==
    IF c1.ret = RUNNING THEN Return(c1, RUNNING)
    ELSE WhileDoElseSwitched(n, expected_child, c1)

(* WhileDoElse.OnTick, lines 457-475: c1 is the context after the condition *)
(* child was ticked again                                                   *)
WhileDoElseReevaluated(n, expected_child, c1) ==
    IF c1.ret = RUNNING THEN Return(c1, RUNNING)
    ELSE WhileDoElseSwitched(n, expected_child,
             IF c1.ns[n].current_child_ # expected_child
             THEN Halt(children_(n)[c1.ns[n].current_child_ + 1], c1)
             ELSE c1)

ExpectedChild(c1) == IF c1.ret = SUCCESS THEN 1 ELSE 2

WhileDoElseAgain(n, c1) == WhileDoElseReevaluated(n, ExpectedChild(c1), c1)

(* WhileDoElse.OnTick *)
WhileDoElseOnTick(n, c) ==
    IF c.ns[n].current_child_ > 0
    THEN WhileDoElseAgain(n, Tick(children_(n)[1], c))
    ELSE ExecuteBranch(n, Tick(children_(n)[1], c))

(* Inverter.OnTick, applied to the context c1 after child_.Tick *)
InverterOnTick(n, c1) ==
    IF c1.ret = SUCCESS THEN Return(c1, FAILURE)
    ELSE IF c1.ret = FAILURE THEN Return(c1, SUCCESS)
    ELSE c1

(* ForceSuccess.OnTick, applied to the context c1 after child_.Tick *)
ForceSuccessOnTick(n, c1) ==
    IF c1.ret = RUNNING THEN Return(c1, RUNNING) ELSE Return(c1, SUCCESS)

(* ForceFailure.OnTick, applied to the context c1 after child_.Tick *)
ForceFailureOnTick(n, c1) ==
    IF c1.ret = RUNNING THEN Return(c1, RUNNING) ELSE Return(c1, FAILURE)

(* FireAndForget.OnTick, applied to the context c1 after child_.Tick *)
FireAndForgetOnTick(n, c1) == Return(c1, SUCCESS)

(* RetryUntilSuccess.OnTick, applied to the context c1 after child_.Tick *)
RetryUntilSuccessOnTick(n, c1) ==
    IF c1.ret = SUCCESS THEN Return(c1, SUCCESS)
    ELSE IF c1.ret = FAILURE
    THEN Return([c1 EXCEPT !.ns[n].current_attempts_ = @ + 1],
                IF max_attempts_(n) > 0 /\ c1.ns[n].current_attempts_ + 1 >= max_attempts_(n)
                THEN FAILURE ELSE RUNNING)
    ELSE Return(c1, RUNNING)

(* RetryUntilFailure.OnTick, applied to the context c1 after child_.Tick *)
RetryUntilFailureOnTick(n, c1) ==
    IF c1.ret = FAILURE THEN Return(c1, FAILURE)
    ELSE IF c1.ret = SUCCESS
    THEN Return([c1 EXCEPT !.ns[n].current_attempts_ = @ + 1],
                IF max_attempts_(n) > 0 /\ c1.ns[n].current_attempts_ + 1 >= max_attempts_(n)
                THEN SUCCESS ELSE RUNNING)
    ELSE Return(c1, RUNNING)

(* Action.OnTick, and OnTick of a user-defined Node: what the callback returns *)
ActionOnTick(n, c) == Return(c, c.cb[n])

(* OnTick of the decorators that tick child_ first and remap its status *)
RemapOnTick(n, c1) ==
    CASE kind(n) = "Inverter" -> InverterOnTick(n, c1)
      [] kind(n) = "ForceSuccess" -> ForceSuccessOnTick(n, c1)
      [] kind(n) = "ForceFailure" -> ForceFailureOnTick(n, c1)
      [] kind(n) = "FireAndForget" -> FireAndForgetOnTick(n, c1)
      [] kind(n) = "RetryUntilSuccess" -> RetryUntilSuccessOnTick(n, c1)
      [] kind(n) = "RetryUntilFailure" -> RetryUntilFailureOnTick(n, c1)
      [] OTHER -> c1

(* Timeout.OnTick, lines 373-380: count down and halt child_ on expiry; *)
(* returned is set when the node returns before ticking child_          *)
TimeoutExpire(n, c1) ==
    IF c1.ns[n].time_left_ <= 0
    THEN [Return(Halt(child_(n), c1), IF behavior_(n) = FAILURE THEN FAILURE ELSE SUCCESS)
            EXCEPT !.returned = TRUE]
    ELSE c1

TimeoutCountDown(n, c) == TimeoutExpire(n, [c EXCEPT !.ns[n].time_left_ = @ - c.dt])

(* mutant: the child is ticked whatever the countdown *)
CooldownCoolingIgnored(n, c1) == c1

(* Cooldown.OnTick, lines 730-732: count down and return FAILURE while cooling; *)
(* the countdown tested is put on the log                                       *)
CooldownCooling(n, c1) ==
    IF c1.ns[n].time_left_ > 0 THEN [Return(c1, FAILURE) EXCEPT !.returned = TRUE] ELSE c1

CooldownCountDown(n, c) ==
    CooldownCooling(n, Log([c EXCEPT !.ns[n].time_left_ = @ - c.dt],
                           "CountDown", n, c.ns[n].time_left_ - c.dt))

(* what a decorator does before ticking child_ *)
BeforeChild(n, c) ==
    IF kind(n) = "Timeout" THEN TimeoutCountDown(n, c)
    ELSE IF kind(n) = "Cooldown" THEN CooldownCountDown(n, c)
    ELSE c

(* the decorators' child_.Tick call, skipped when the node already returned *)
TickChild(n, c) ==
    IF c.returned THEN [c EXCEPT !.returned = FALSE]
    ELSE RemapOnTick(n, Tick(child_(n), c))

(* mutant: a MemorySequence starts each OnTick at its first child *)
LoopStartForgetful(n, c) ==
    IF kind(n) \in {"Sequence", "Fallback"} THEN c.ns[n].current_index_ ELSE 0

(* the composites' loops, started as their OnTick starts them *)
LoopStart(n, c) ==
    IF kind(n) \in {"Sequence", "Fallback"} THEN c.ns[n].current_index_
    ELSE IF kind(n) = "MemorySequence" THEN c.ns[n].current_index_
    ELSE 0

CompositeOnTick(n, c) ==
    CASE kind(n) = "Sequence" -> SequenceLoop(n, LoopStart(n, c), c)
      [] kind(n) = "ReactiveSequence" -> ReactiveSequenceLoop(n, LoopStart(n, c), c)
      [] kind(n) = "MemorySequence" ->
            IF size(n) = 0 THEN Return(c, SUCCESS)
            ELSE MemorySequenceLoop(n, LoopStart(n, c), c)
      [] kind(n) = "Fallback" -> FallbackLoop(n, LoopStart(n, c), c)
      [] kind(n) = "ReactiveFallback" -> ReactiveFallbackLoop(n, LoopStart(n, c), c)
      [] kind(n) = "IfThenElse" -> IfThenElseOnTick(n, c)
      [] kind(n) = "WhileDoElse" -> WhileDoElseOnTick(n, c)
      [] OTHER -> ParallelLoop(n, 1, 0, 0, c)

LogOnTick(n, r) == Log(r, "OnTick", n, r.ret)

(* Node.OnTick, dispatched on the class of the node *)
OnTick(n, c) ==
    LogOnTick(n, IF kind(n) \in CompositeKinds THEN CompositeOnTick(n, c)
                 ELSE IF kind(n) \in DecoratorKinds THEN TickChild(n, BeforeChild(n, c))
                 ELSE ActionOnTick(n, c))

-----------------------------------------------------------------------------
(* BehaviorTree *)

(* BehaviorTree.Tick: the loop halting the nodes of active_nodes_ that are *)
(* not in new_active_nodes.  Set iteration order is insertion order; the   *)
(* model iterates in node-id order, any order giving the same final state  *)
(* of the node fields.                                                     *)
RECURSIVE HaltDropped(_, _, _)
(* mutant: the nodes dropped from the active set are not halted *)
HaltDroppedSkipped(old, n, c) == c

HaltDropped(old, n, c) ==
    IF n > Len(T) THEN c
    ELSE HaltDropped(old, n + 1,
                     IF n \in old /\ n \notin c.active THEN Halt(n, c) ELSE c)

RunningIn(nodes) == {n \in DOMAIN nodes : nodes[n].state_ = RUNNING}

(* BehaviorTree.Tick, lines 825-833, c1 being the context after root_.Tick *)
FinishTick(c1, c2) ==
    /\ ns' = c2.ns
    /\ active_nodes_' = c1.active
    /\ trace' = c2.log
    /\ ret' = c1.ret
    /\ mid_running' = RunningIn(c1.ns)

DiffAndFinish(c1) == FinishTick(c1, HaltDropped(active_nodes_, 1, Log(c1, "Diff", 0, NONE)))

(* the greatest current_attempts_ followed *)
MaxAttempts == 4

(* the longest time a countdown is followed below zero *)
MaxOverdue == 3

TickRoot(dt, cb, st) ==
    /\ \A n \in Nodes : ns[n].current_attempts_ < MaxAttempts
    /\ \A n \in Nodes : ns[n].time_left_ > -MaxOverdue
    /\ DiffAndFinish(Tick(root_, Ctx(ns, dt, cb, st)))
    /\ op' = "Tick"
    /\ frame' = 1 - frame

BehaviorTreeTick(dt, cb, st) ==
    /\ TickRoot(dt, cb, st)
    /\ UNCHANGED <<tree, unitVars, goapVars, fsmVars, wsVars, buildVars>>

FinishHalt(c1) ==
    /\ ns' = c1.ns
    /\ trace' = c1.log

BehaviorTreeHalt ==
    /\ FinishHalt(Halt(root_, Ctx(ns, 0, <<>>, <<>>)))
    /\ active_nodes_' = {}
    /\ ret' = NONE
    /\ op' = "Halt"
    /\ mid_running' = {}
    /\ frame' = 1 - frame
    /\ UNCHANGED <<tree, unitVars, goapVars, fsmVars, wsVars, buildVars>>

InitBT ==
    /\ tree \in {Trees[i] : i \in 1..Len(Trees)}
    /\ ns = [n \in 1..Len(tree) |-> NewNode]
    /\ active_nodes_ = {}
    /\ trace = <<>>
    /\ ret = NONE
    /\ op = "new"
    /\ mid_running = {}
    /\ frame = 0

NextBT ==
    \/ \E dt \in 1..MaxDt, cb \in [LeavesOf(tree) -> ENodeStatus],
          st \in [CustomOf(tree) -> ENodeStatus] : BehaviorTreeTick(dt, cb, st)
    \/ BehaviorTreeHalt

-----------------------------------------------------------------------------
(* Goap.Action: the execution contract of src/src/Goap.ts.  Actions are    *)
(* user subclasses: OnStart and OnTick return what the user code returns.  *)

Actions == 1..3
EActionStatus == {SUCCESS, FAILURE, RUNNING}

ACtx(states, active, cb, st) ==
    [as |-> states, active |-> active, log |-> <<>>, ret |-> NONE, returned |-> FALSE,
     cb |-> cb, st |-> st]

SetAState(c, a, s) == [c EXCEPT !.as[a] = s]

(* Action.OnStart as overridden by the user's action class *)
GoapOnStart(a, c) == Log(Return(c, c.st[a]), "OnStart", a, c.st[a])

(* Action.OnTick (abstract): the user's implementation *)
GoapOnTick(a, c) == Log(Return(c, c.cb[a]), "OnTick", a, c.cb[a])

(* Action.OnFinish *)
GoapOnFinish(a, c, status) == Log(c, "OnFinish", a, status)

(* Action.OnHalt *)
GoapOnHalt(a, c) == Log(c, "OnHalt", a, NONE)

(* Action.Tick, lines 762-766: after OnStart returned into s *)
GoapAfterOnStart(a, s) ==
    IF s.ret # RUNNING
    THEN [Return(GoapOnFinish(a, SetAState(s, a, IDLE), s.ret), s.ret)
            EXCEPT !.returned = TRUE]
    ELSE s

(* Action.Tick, lines 758-767: the IDLE branch *)
GoapTickIdle(a, c) ==
    IF c.as[a] = IDLE
    THEN GoapAfterOnStart(a, GoapOnStart(a, SetAState(c, a, RUNNING)))
    ELSE c

(* Action.Tick, lines 772-781: after OnTick returned into t *)
GoapAfterOnTick(a, t) ==
    IF t.ret = RUNNING THEN [t EXCEPT !.active = @ \cup {a}]
    ELSE Return(GoapOnFinish(a, SetAState(t, a, IDLE), t.ret), t.ret)

(* Action.Tick, lines 769-789: the RUNNING and HALTED branches *)
GoapTickRunning(a, c) ==
    IF c.returned THEN c
    ELSE IF c.as[a] = RUNNING THEN GoapAfterOnTick(a, GoapOnTick(a, c))
    ELSE IF c.as[a] = HALTED THEN Return(SetAState(c, a, IDLE), FAILURE)
    ELSE Return(c, FAILURE)

(* Action.Tick *)
GoapTick(a, c) ==
    LogReturn(a, GoapTickRunning(a, GoapTickIdle(a, Log(c, "Tick", a, c.as[a]))))

(* Action.Halt *)
GoapHalt(a, c) ==
    IF c.as[a] # RUNNING THEN Log(c, "Halt", a, c.as[a])
    ELSE SetAState(GoapOnHalt(a, SetAState(Log(c, "Halt", a, c.as[a]), a, HALTED)),
                   a, IDLE)

-----------------------------------------------------------------------------
(* Goap.WorldState, Comparison and Effect.  Requirements and effects are   *)
(* described by the helper that built them and its argument.               *)

Req(o, v) == [op |-> o, v |-> v]
Eff(o, v) == [op |-> o, v |-> v]

(* Comparison.Eq / NEq / Is / IsNot applied to the value other_v *)
RequirementHolds(r, other_v) ==
    CASE r.op = "Eq" -> other_v = r.v
      [] r.op = "NEq" -> other_v # r.v
      [] r.op = "Is" -> other_v
      [] r.op = "IsNot" -> ~other_v

(* Effect.Set / Toggle applied to the value other_v *)
EffectApply(e, other_v) ==
    CASE e.op = "Set" -> e.v
      [] e.op = "Toggle" -> ~other_v

(* WorldState.SatisfiesRequirements *)
SatisfiesRequirements(ws, requirements) ==
    \A key \in DOMAIN requirements : RequirementHolds(requirements[key], ws[key])

(* WorldState.ApplyEffects *)
ApplyEffects(ws, effects) ==
    [key \in DOMAIN ws |->
        IF key \in DOMAIN effects THEN EffectApply(effects[key], ws[key]) ELSE ws[key]]

(* WorldState.Clone: a copy of the key/value table (the values held here are scalars) *)
Clone(ws) == [key \in DOMAIN ws |-> ws[key]]

(* WorldState.Equals *)
Equals(this, target) ==
    /\ Cardinality(DOMAIN target) = Cardinality(DOMAIN this)
    /\ \A k \in DOMAIN target : k \in DOMAIN this /\ this[k] = target[k]

(* The agent's domain: the actions and goals handed to the Agent constructor *)
ActionDefs == <<
    \* 1: GetWeapon
    [requirements |-> ("hasWeapon" :> Req("IsNot", FALSE)),
     effects |-> ("hasWeapon" :> Eff("Set", TRUE)), cost |-> 1, tired |-> 0],
    \* 2: Attack, dearer for an agent that is not rested
    [requirements |-> ("hasWeapon" :> Req("Is", TRUE)),
     effects |-> ("enemyDead" :> Eff("Set", TRUE)), cost |-> 2, tired |-> 1],
    \* 3: Rest
    [requirements |-> ("rested" :> Req("Eq", FALSE)),
     effects |-> ("rested" :> Eff("Set", TRUE)), cost |-> 1, tired |-> 0],
    \* 4: DropWeapon
    [requirements |-> ("hasWeapon" :> Req("Is", TRUE)),
     effects |-> ("hasWeapon" :> Eff("Toggle", TRUE)), cost |-> 1, tired |-> 0],
    \* 5: Ambush, without requirements
    [requirements |-> <<>>,
     effects |-> ("enemyDead" :> Eff("Set", TRUE)), cost |-> 4, tired |-> 0],
    \* 6: ThrowWeapon, which costs the weapon
    [requirements |-> ("hasWeapon" :> Req("Is", TRUE)),
     effects |-> ("hasWeapon" :> Eff("Set", FALSE)) @@ ("enemyDead" :> Eff("Set", TRUE)),
     cost |-> 1, tired |-> 0]
>>

GetStaticRequirements(a, ws) == ActionDefs[a].requirements
GetStaticEffects(a, ws) == ActionDefs[a].effects
GetCost(a, ws) ==
    IF ws["rested"] THEN ActionDefs[a].cost ELSE ActionDefs[a].cost + ActionDefs[a].tired


GoalDefs == <<
    \* 1: KillEnemy, its priority a function of the world state: 3 when rested, else 2
    [Name |-> "KillEnemy", RequirementsMap |-> ("enemyDead" :> Req("Is", TRUE)),
     requirement_weights_ |-> ("enemyDead" :> 1), priority_v_ |-> 1,
     priority_func_ |-> <<[key |-> "rested", yes |-> 3, no |-> 2]>>,
     is_composite_ |-> FALSE, sub_goals_ |-> <<>>],
    \* 2: Rested
    [Name |-> "Rested", RequirementsMap |-> ("rested" :> Req("Eq", TRUE)),
     requirement_weights_ |-> ("rested" :> 1), priority_v_ |-> 1, priority_func_ |-> <<>>,
     is_composite_ |-> FALSE, sub_goals_ |-> <<>>],
    \* 3: composite ArmedAndRested = (Armed, Rested)
    [Name |-> "ArmedAndRested", RequirementsMap |-> <<>>,
     requirement_weights_ |-> <<>>, priority_v_ |-> 3, priority_func_ |-> <<>>,
     is_composite_ |-> TRUE, sub_goals_ |-> <<4, 2>>],
    \* 4: Armed
    [Name |-> "Armed", RequirementsMap |-> ("hasWeapon" :> Req("Is", TRUE)),
     requirement_weights_ |-> ("hasWeapon" :> 1), priority_v_ |-> 1, priority_func_ |-> <<>>,
     is_composite_ |-> FALSE, sub_goals_ |-> <<>>],
    \* 5: composite ArmedThenKill = (Armed, KillEnemy)
    [Name |-> "ArmedThenKill", RequirementsMap |-> <<>>,
     requirement_weights_ |-> <<>>, priority_v_ |-> 1, priority_func_ |-> <<>>,
     is_composite_ |-> TRUE, sub_goals_ |-> <<4, 1>>],
    \* 6: KillEnemyNow, AddRequirement("enemyDead", Comparison.Is(), 5)
    [Name |-> "KillEnemyNow", RequirementsMap |-> ("enemyDead" :> Req("Is", TRUE)),
     requirement_weights_ |-> ("enemyDead" :> 5), priority_v_ |-> 1, priority_func_ |-> <<>>,
     is_composite_ |-> FALSE, sub_goals_ |-> <<>>],
    \* 7: new Goal("Idle", 1, true), a composite goal no sub-goal was added to
    [Name |-> "Idle", RequirementsMap |-> <<>>,
     requirement_weights_ |-> <<>>, priority_v_ |-> 1, priority_func_ |-> <<>>,
     is_composite_ |-> TRUE, sub_goals_ |-> <<>>]
>>

WorldKeys == {"hasWeapon", "enemyDead", "rested"}

(* Goal.GetPriority *)
GetPriority(g, ws) ==
    IF GoalDefs[g].priority_func_ = <<>> THEN GoalDefs[g].priority_v_
    ELSE IF ws[GoalDefs[g].priority_func_[1].key] THEN GoalDefs[g].priority_func_[1].yes
    ELSE GoalDefs[g].priority_func_[1].no

(* Goal.GetRequirementWeight *)
GetRequirementWeight(g, key) ==
    IF key \in DOMAIN GoalDefs[g].requirement_weights_
    THEN GoalDefs[g].requirement_weights_[key] ELSE 1

(* Goal.DecomposeIntoSubgoals *)
DecomposeIntoSubgoals(g) ==
    IF Len(GoalDefs[g].sub_goals_) > 0 THEN GoalDefs[g].sub_goals_ ELSE <<g>>

(* Goal.IsSatisfied *)
RECURSIVE IsSatisfied(_, _)
IsSatisfied(g, ws) ==
    IF GoalDefs[g].is_composite_
    THEN \A i \in 1..Len(GoalDefs[g].sub_goals_) : IsSatisfied(GoalDefs[g].sub_goals_[i], ws)
    ELSE SatisfiesRequirements(ws, GoalDefs[g].RequirementsMap)

(* WorldState.CalculateWeightedDistance: the loop over the keys not yet visited *)
RECURSIVE WeightedDistanceLoop(_, _, _)
WeightedDistanceLoop(ws, g, keys) ==
    IF keys = {} THEN 0
    ELSE LET key == CHOOSE k \in keys : TRUE
         IN (IF ~RequirementHolds(GoalDefs[g].RequirementsMap[key], ws[key])
             THEN GetRequirementWeight(g, key) ELSE 0)
            + WeightedDistanceLoop(ws, g, keys \ {key})

CalculateWeightedDistance(ws, g) ==
    WeightedDistanceLoop(ws, g, DOMAIN GoalDefs[g].RequirementsMap)

(* Goal.CalculateDistance *)
RECURSIVE CalculateDistance(_, _)
RECURSIVE SubGoalDistance(_, _, _)
SubGoalDistance(g, ws, i) ==
    IF i > Len(GoalDefs[g].sub_goals_) THEN 0
    ELSE CalculateDistance(GoalDefs[g].sub_goals_[i], ws) + SubGoalDistance(g, ws, i + 1)

CalculateDistance(g, ws) ==
    IF ~GoalDefs[g].is_composite_ THEN CalculateWeightedDistance(ws, g)
    ELSE SubGoalDistance(g, ws, 1)

-----------------------------------------------------------------------------
(* Plan, PlanNode, PriorityQueue, WorldStateSet *)

Plan(goal, actions, cost) == [Goal |-> goal, Actions |-> actions, Cost |-> cost]

(* PlanNode constructor; Action 0 is undefined, Parent is <<>> or <<node>> *)
PlanNode(ws, action, parent, g_cost, h_cost) ==
    [WorldState |-> ws, Action |-> action, Parent |-> parent,
     GCost |-> g_cost, HCost |-> h_cost, FCost |-> g_cost + h_cost]

(* PlanNode.ReconstructPath: push the actions following Parent, then reverse *)
RECURSIVE PathBack(_)
PathBack(current) ==
    IF current.Action = 0 THEN <<>>
    ELSE <<current.Action>> \o (IF current.Parent = <<>> THEN <<>>
                                ELSE PathBack(current.Parent[1]))

Reverse(path) == [i \in 1..Len(path) |-> path[Len(path) + 1 - i]]

(* mutant: the path is returned as pushed, last action first *)
ReconstructPathUnreversed(node) == PathBack(node)

ReconstructPath(node) == Reverse(PathBack(node))

(* items_.sort((a, b) => a.priority < b.priority): ascending by priority;  *)
(* entries of equal priority are kept in their order                       *)
RECURSIVE InsertSorted(_, _)
InsertSorted(sorted, entry) ==
    IF sorted = <<>> THEN <<entry>>
    ELSE IF entry.priority < Head(sorted).priority THEN <<entry>> \o sorted
    ELSE <<Head(sorted)>> \o InsertSorted(Tail(sorted), entry)

RECURSIVE SortItems(_, _)
SortItems(items, i) ==
    IF i > Len(items) THEN <<>>
    ELSE InsertSorted(SortItems(items, i + 1), items[Len(items) + 1 - i])

Sort(items) == [i \in 1..Len(items) |-> SortItems(items, 1)[i]]

(* PriorityQueue.Enqueue *)
Enqueue(items_, item, priority) ==
    Sort(Append(items_, [item |-> item, priority |-> priority]))

(* PriorityQueue.Contains with the predicate of line 349 *)
ContainsState(items_, new_state) ==
    \E i \in 1..Len(items_) : Equals(items_[i].item.WorldState, new_state)

(* PriorityQueue.Replace with the predicate of line 358 *)
Worse(entry, new_state, f_cost) ==
    Equals(entry.item.WorldState, new_state) /\ entry.item.FCost > f_cost

ReplaceWorse(items_, new_state, new_item, f_cost) ==
    IF \E i \in 1..Len(items_) : Worse(items_[i], new_state, f_cost)
    THEN Sort([items_ EXCEPT
                 ![CHOOSE i \in 1..Len(items_) :
                      /\ Worse(items_[i], new_state, f_cost)
                      /\ \A j \in 1..(i - 1) : ~Worse(items_[j], new_state, f_cost)]
                 = [item |-> new_item, priority |-> f_cost]])
    ELSE items_

(* mutant: no state is ever found in the set *)
HasNever(states, state) == FALSE

(* WorldStateSet.Has / Add *)
Has(states, state) == \E i \in 1..Len(states) : Equals(states[i], state)
Add(states, state) == IF Has(states, state) THEN states ELSE Append(states, state)

-----------------------------------------------------------------------------
(* Planner *)

(* the default of the Planner constructor's max_iterations *)
max_iterations == 1000

RECURSIVE CreatePlan(_, _)
RECURSIVE SearchLoop(_, _)
RECURSIVE ExpandLoop(_, _, _, _)
RECURSIVE HierarchicalLoop(_, _, _)

(* Planner.CreatePlan, lines 342-361: the neighbour new_node, reached over *)
(* a state that is not in the closed set                                   *)
Consider(S, new_node) ==
    IF ~ContainsState(S.open, new_node.WorldState)
    THEN [S EXCEPT !.open = Enqueue(@, new_node, new_node.FCost)]
    ELSE [S EXCEPT !.open = ReplaceWorse(@, new_node.WorldState, new_node, new_node.FCost)]

(* lines 336-340 and 342-346 *)
Neighbour(S, current_node, goal, action, new_state) ==
    IF Has(S.closed, new_state) THEN S
    ELSE Consider(S, PlanNode(new_state, action, <<current_node>>,
                              current_node.GCost + GetCost(action, current_node.WorldState),
                              CalculateDistance(goal, new_state)))

(* lines 327-362: the loop over available_actions from position i *)
ExpandLoop(S, current_node, goal, i) ==
    IF i > Len(available_actions_) THEN S
    ELSE ExpandLoop(
             IF ~SatisfiesRequirements(current_node.WorldState,
                    GetStaticRequirements(available_actions_[i], current_node.WorldState))
             THEN [S EXCEPT !.evals = @ + 1]
             ELSE Neighbour([S EXCEPT !.evals = @ + 1], current_node, goal,
                      available_actions_[i],
                      ApplyEffects(Clone(current_node.WorldState),
                          GetStaticEffects(available_actions_[i], current_node.WorldState))),
             current_node, goal, i + 1)

(* lines 316-362: one dequeued node; S is the search state after Dequeue; expanded *)
(* lists the states of the nodes that got past the closed-set test of line 316     *)
Visit(S, current_node, goal) ==
    IF Has(S.closed, current_node.WorldState) THEN S
    ELSE IF IsSatisfied(goal, current_node.WorldState)
    THEN [S EXCEPT !.closed = Add(@, current_node.WorldState),
                   !.expanded = Append(@, current_node.WorldState),
                   !.plan = <<Plan(goal, ReconstructPath(current_node), current_node.GCost)>>,
                   !.done = TRUE]
    ELSE ExpandLoop([S EXCEPT !.closed = Add(@, current_node.WorldState),
                              !.expanded = Append(@, current_node.WorldState)],
                    current_node, goal, 1)

(* lines 311-366: the while loop; returns the search state, plan being  *)
(* <<>> when no plan was found                                          *)
SearchLoop(S, goal) ==
    IF S.done \/ S.open = <<>> \/ ~(S.iterations < max_iterations_) THEN S
    ELSE SearchLoop(Visit([S EXCEPT !.iterations = @ + 1, !.open = Tail(@)],
                          Head(S.open).item, goal),
                    goal)

StartNode(current_state, goal) ==
    PlanNode(Clone(current_state), 0, <<>>, 0, CalculateDistance(goal, current_state))

StartSearch(start_node) ==
    [open |-> Enqueue(<<>>, start_node, start_node.FCost), closed |-> <<>>,
     iterations |-> 0, evals |-> 0, expanded |-> <<>>, plan |-> <<>>, done |-> FALSE]

(* lines 389-391: apply the effects of the sub-plan's actions in order *)
RECURSIVE ApplyAll(_, _, _)
ApplyAll(ws, actions, i) ==
    IF i > Len(actions) THEN ws
    ELSE ApplyAll(ApplyEffects(ws, GetStaticEffects(actions[i], ws)), actions, i + 1)

(* mutant: the working state is not advanced by the sub-plan's effects *)
HierarchicalStepStale(H, sub_plan) ==
    IF sub_plan = <<>> THEN [H EXCEPT !.failed = TRUE]
    ELSE [H EXCEPT !.combined_actions = @ \o sub_plan[1].Actions,
                   !.total_cost = @ + sub_plan[1].Cost]

(* Planner.CreateHierarchicalPlan: the loop over sub_goals from position i; *)
(* H holds combined_actions, total_cost, current_work_state and whether a   *)
(* sub-goal had no plan                                                     *)
HierarchicalStep(H, sub_plan) ==
    IF sub_plan = <<>> THEN [H EXCEPT !.failed = TRUE]
    ELSE [H EXCEPT !.combined_actions = @ \o sub_plan[1].Actions,
                   !.total_cost = @ + sub_plan[1].Cost,
                   !.current_work_state = ApplyAll(@, sub_plan[1].Actions, 1)]

HierarchicalLoop(H, sub_goals, i) ==
    IF H.failed \/ i > Len(sub_goals) THEN H
    ELSE HierarchicalLoop(HierarchicalStep(H, CreatePlan(H.current_work_state, sub_goals[i])),
                          sub_goals, i + 1)

HierarchicalResult(H, composite_goal) ==
    IF H.failed THEN <<>>
    ELSE <<Plan(composite_goal, H.combined_actions, H.total_cost)>>

CreateHierarchicalPlan(current_state, composite_goal) ==
    HierarchicalResult(
        HierarchicalLoop([combined_actions |-> <<>>, total_cost |-> 0,
                          current_work_state |-> Clone(current_state), failed |-> FALSE],
                         DecomposeIntoSubgoals(composite_goal), 1),
        composite_goal)

(* line 294: the goal is satisfied already; no open set, no closed set, no iteration *)
SatisfiedAlready(goal) ==
    [open |-> <<>>, closed |-> <<>>, iterations |-> 0, evals |-> 0, expanded |-> <<>>,
     plan |-> <<Plan(goal, <<>>, 0)>>, done |-> TRUE]

(* mutant: the actions are tried on the start node before the empty plan is returned *)
LeafSearchExpanding(current_state, goal) ==
    IF IsSatisfied(goal, current_state)
    THEN [ExpandLoop(StartSearch(StartNode(current_state, goal)),
                     StartNode(current_state, goal), goal, 1)
            EXCEPT !.plan = <<Plan(goal, <<>>, 0)>>, !.done = TRUE]
    ELSE SearchLoop(StartSearch(StartNode(current_state, goal)), goal)

(* Planner.CreatePlan, lines 293-366, for a leaf goal: the search state at the return; *)
(* plan is <<>> (undefined) or <<plan>>, evals counts the actions whose requirements   *)
(* were evaluated                                                                      *)
LeafSearch(current_state, goal) ==
    IF IsSatisfied(goal, current_state) THEN SatisfiedAlready(goal)
    ELSE SearchLoop(StartSearch(StartNode(current_state, goal)), goal)

(* Planner.CreatePlan: <<>> (undefined) or <<plan>> *)
CreatePlan(current_state, goal) ==
    IF GoalDefs[goal].is_composite_ THEN CreateHierarchicalPlan(current_state, goal)
    ELSE LeafSearch(current_state, goal).plan

-----------------------------------------------------------------------------
(* Goap.Agent.  One operation of the agent runs over the record A: the     *)
(* fields of the action context plus the agent's own fields.               *)

(* Agent.planning_interval_, in seconds *)
planning_interval_ == 1

AgentCtx(cb, st) ==
    [as |-> astate, active |-> agent_active_nodes_, log |-> <<>>, ret |-> NONE,
     returned |-> FALSE, cb |-> [a \in Actions |-> cb], st |-> [a \in Actions |-> st],
     ws |-> world_state_, plan |-> current_plan_, goal |-> current_goal_,
     cooldown |-> planning_cooldown_]

(* Plan.IsEmpty on a defined plan *)
IsEmpty(plan) == plan[1].Actions = <<>>

(* Plan.GetNextAction *)
GetNextAction(plan) == plan[1].Actions[1]

(* Agent.StopCurrentPlan: the loop over current_plan_.Actions from position i *)
RECURSIVE StopLoop(_, _, _)
StopLoop(A, actions, i) ==
    IF i > Len(actions) THEN A
    ELSE StopLoop(IF A.as[actions[i]] = RUNNING THEN GoapHalt(actions[i], A) ELSE A,
                  actions, i + 1)

(* Agent.StopCurrentPlan *)
StopCurrentPlan(A) ==
    IF A.plan = <<>> THEN A ELSE StopLoop(A, A.plan[1].Actions, 1)

(* mutant: a goal of equal score replaces the best one *)
BestStepLastWins(ws, goal, best) ==
    IF IsSatisfied(goal, ws) THEN best
    ELSE IF best.goal # 0 /\ GetPriority(goal, ws) < best.score THEN best
    ELSE [goal |-> goal, score |-> GetPriority(goal, ws)]

(* Agent.FindBestGoal, lines 509-517: one goal of the loop; best.goal = 0 *)
(* while best_score is still -math.huge                                   *)
BestStep(ws, goal, best) ==
    IF IsSatisfied(goal, ws) THEN best
    ELSE IF best.goal # 0 /\ GetPriority(goal, ws) <= best.score THEN best
    ELSE [goal |-> goal, score |-> GetPriority(goal, ws)]

RECURSIVE BestGoalLoop(_, _, _, _)
BestGoalLoop(ws, goals, i, best) ==
    IF i > Len(goals) THEN best.goal
    ELSE BestGoalLoop(ws, goals, i + 1, BestStep(ws, goals[i], best))

(* Agent.FindBestGoal: 0 when undefined *)
FindBestGoal(ws, goals) == BestGoalLoop(ws, goals, 1, [goal |-> 0, score |-> 0])

(* Agent.CreateNewPlan, lines 493-501; the plan taken over is put on the log *)
Adopt(A, best_goal, plan) ==
    IF plan # <<>>
    THEN [Log(A, "NewPlan", plan[1], "-") EXCEPT !.plan = plan, !.goal = best_goal]
    ELSE [A EXCEPT !.plan = <<>>, !.goal = 0]

(* Agent.CreateNewPlan, lines 480-501 *)
PlanFor(A, best_goal) ==
    IF best_goal = 0 THEN [A EXCEPT !.plan = <<>>, !.goal = 0]
    ELSE Adopt(A, best_goal, CreatePlan(A.ws, best_goal))

(* line 480; the goal returned by FindBestGoal is put on the log *)
PlanBest(A) ==
    PlanFor(Log(A, "FindBestGoal", FindBestGoal(A.ws, goals_), "-"),
            FindBestGoal(A.ws, goals_))

(* Agent.CreateNewPlan *)
CreateNewPlan(A) ==
    PlanBest(StopCurrentPlan(
        Log([A EXCEPT !.cooldown = planning_interval_], "CreateNewPlan", 0, "-")))

(* mutant: the cooldown is not looked at *)
ShouldReplanNoCooldown(A) ==
    \/ A.plan = <<>>
    \/ IsEmpty(A.plan)
    \/ (A.goal # 0 /\ IsSatisfied(A.goal, A.ws))

(* Agent.ShouldReplan *)
ShouldReplan(A) ==
    \/ A.plan = <<>>
    \/ IsEmpty(A.plan)
    \/ (A.goal # 0 /\ IsSatisfied(A.goal, A.ws))
    \/ A.cooldown <= 0

(* mutant: the succeeded action stays in the plan *)
AfterActionTickNoPop(current_action, t) ==
    IF t.ret = SUCCESS
    THEN [t EXCEPT !.ws = ApplyEffects(@, GetStaticEffects(current_action, t.ws))]
    ELSE IF t.ret = FAILURE THEN [t EXCEPT !.plan = <<>>]
    ELSE t

(* Agent.ExecuteCurrentPlan, lines 543-554: after current_action.Tick returned into t *)
AfterActionTick(current_action, t) ==
    IF t.ret = SUCCESS
    THEN [t EXCEPT !.ws = ApplyEffects(@, GetStaticEffects(current_action, t.ws)),
                   !.plan[1].Actions = Tail(@)]
    ELSE IF t.ret = FAILURE THEN [t EXCEPT !.plan = <<>>]
    ELSE t

(* mutant: the action is ticked whether or not its requirements hold *)
ExecuteActionUnchecked(A, current_action) ==
    AfterActionTick(current_action, GoapTick(current_action, A))

(* Agent.ExecuteCurrentPlan, lines 531-541 *)
ExecuteAction(A, current_action) ==
    IF ~SatisfiesRequirements(A.ws, GetStaticRequirements(current_action, A.ws))
    THEN [A EXCEPT !.plan = <<>>]
    ELSE AfterActionTick(current_action, GoapTick(current_action, A))

(* Agent.ExecuteCurrentPlan *)
ExecuteCurrentPlan(A) ==
    IF A.plan = <<>> THEN A
    ELSE IF IsEmpty(A.plan) THEN A
    ELSE ExecuteAction(A, GetNextAction(A.plan))

(* Agent.Update, lines 452-456 *)
ExecuteIfPlanned(A) ==
    IF A.plan = <<>> THEN A
    ELSE IF IsEmpty(A.plan) THEN A
    ELSE ExecuteCurrentPlan(A)

(* Agent.Update, lines 442-450 *)
Replan(A) == IF ShouldReplan(A) THEN CreateNewPlan(A) ELSE A

(* the agent's fields after an operation that ran over A *)
Commit(A, name) ==
    /\ astate' = A.as
    /\ agent_active_nodes_' = A.active
    /\ world_state_' = A.ws
    /\ current_plan_' = A.plan
    /\ current_goal_' = A.goal
    /\ planning_cooldown_' = A.cooldown
    /\ atrace' = A.log
    /\ aop' = name

(* Agent.Update *)
Update(dt_s, cb, st) ==
    /\ Commit(ExecuteIfPlanned(Replan(
           [Log(AgentCtx(cb, st), "Update", dt_s, "-")
               EXCEPT !.cooldown = @ - dt_s,
                      !.active = {a \in @ : astate[a] = RUNNING}])),
              "Update")
    /\ UNCHANGED <<goals_, plannerVars, btVars, unitVars, fsmVars, wsVars, buildVars>>

(* goals_.findIndex((goal) => goal.Name === goal_name); 0 when not found *)
FindIndex(goals, goal_name) ==
    IF \E i \in 1..Len(goals) : GoalDefs[goals[i]].Name = goal_name
    THEN CHOOSE i \in 1..Len(goals) :
             /\ GoalDefs[goals[i]].Name = goal_name
             /\ \A j \in 1..(i - 1) : GoalDefs[goals[j]].Name # goal_name
    ELSE 0

(* goals_.remove(index) *)
Remove(goals, index) ==
    IF index = 0 THEN goals
    ELSE [i \in 1..(Len(goals) - 1) |-> IF i < index THEN goals[i] ELSE goals[i + 1]]

(* Agent.RemoveGoal *)
RemoveGoal(goal_name) ==
    /\ goals_' = Remove(goals_, FindIndex(goals_, goal_name))
    /\ IF current_goal_ # 0 /\ GoalDefs[current_goal_].Name = goal_name
       THEN current_goal_' = 0 /\ current_plan_' = <<>>
       ELSE UNCHANGED <<current_goal_, current_plan_>>
    /\ atrace' = <<>>
    /\ aop' = "RemoveGoal"
    /\ UNCHANGED <<astate, agent_active_nodes_, world_state_, planning_cooldown_,
                   plannerVars, btVars, unitVars, fsmVars, wsVars, buildVars>>

(* Agent.AddGoal; a goal is registered once *)
AddGoal(goal) ==
    /\ \A i \in 1..Len(goals_) : goals_[i] # goal
    /\ goals_' = Append(goals_, goal)
    /\ atrace' = <<>>
    /\ aop' = "AddGoal"
    /\ UNCHANGED <<astate, agent_active_nodes_, world_state_, current_plan_, current_goal_,
                   planning_cooldown_, plannerVars, btVars, unitVars, fsmVars, wsVars, buildVars>>

(* Agent.Reset *)
Reset ==
    /\ IF current_plan_ = <<>>
       THEN Commit(AgentCtx(SUCCESS, SUCCESS), "Reset")
       ELSE Commit([StopCurrentPlan(AgentCtx(SUCCESS, SUCCESS))
                       EXCEPT !.plan = <<>>, !.goal = 0, !.active = {}], "Reset")
    /\ UNCHANGED <<goals_, plannerVars, btVars, unitVars, fsmVars, wsVars, buildVars>>

(* The game writes a fact into the agent's world state between updates: *)
(* Blackboard.SetWild on Agent.GetWorldState()                          *)
SetWild(key, value) ==
    /\ world_state_' = [world_state_ EXCEPT ![key] = value]
    /\ atrace' = <<>>
    /\ aop' = "SetWild"
    /\ UNCHANGED <<astate, agent_active_nodes_, current_plan_, current_goal_, goals_,
                   planning_cooldown_, plannerVars, btVars, unitVars, fsmVars, wsVars, buildVars>>

(* the greatest dt_s handed to Agent.Update, in seconds *)
MaxAgentDt == 1

(* the goals handed to AddGoal / RemoveGoal *)
AgentGoals == {1, 3}

(* no direct call of Planner.CreatePlan so far *)
NotPlanned == [goal |-> 0, plan |-> <<>>]

InitGoap ==
    /\ astate = [a \in Actions |-> IDLE]
    /\ world_state_ = [key \in WorldKeys |-> FALSE]
    /\ current_plan_ = <<>>
    /\ current_goal_ = 0
    /\ goals_ = <<>>
    /\ agent_active_nodes_ = {}
    /\ planning_cooldown_ = 0
    /\ atrace = <<>>
    /\ aop = NONE
    /\ available_actions_ = <<1, 2, 3>>
    /\ max_iterations_ = max_iterations
    /\ planned = NotPlanned
    /\ calls = <<>>

NextAgent ==
    \/ \E dt_s \in 0..MaxAgentDt, cb \in EActionStatus, st \in EActionStatus : Update(dt_s, cb, st)
    \/ \E g \in AgentGoals : AddGoal(g)
    \/ \E g \in AgentGoals : RemoveGoal(GoalDefs[g].Name)
    \/ Reset
    \/ \E key \in WorldKeys, value \in BOOLEAN : SetWild(key, value)

-----------------------------------------------------------------------------
(* A Planner used directly: new Planner(max_iterations) and CreatePlan over *)
(* a world state, a goal and a list of actions.                             *)

MaxIterationsArg == 6
MaxActions == 3

(* the lists of distinct actions of at most MaxActions entries *)
ActionLists ==
    {l \in UNION {[1..n -> 1..Len(ActionDefs)] : n \in 0..MaxActions} :
        \A i, j \in 1..Len(l) : i # j => l[i] # l[j]}

(* planner.CreatePlan(world_state, goal, actions): the search state of a leaf goal, *)
(* the plan alone of a composite goal                                               *)
PlannerCreatePlan(goal) ==
    /\ planned' = IF GoalDefs[goal].is_composite_
                  THEN [goal |-> goal, plan |-> CreatePlan(world_state_, goal)]
                  ELSE [goal |-> goal] @@ LeafSearch(world_state_, goal)
    /\ UNCHANGED <<astate, world_state_, current_plan_, current_goal_, goals_,
                   agent_active_nodes_, planning_cooldown_, atrace, aop,
                   available_actions_, max_iterations_, calls,
                   btVars, unitVars, fsmVars, wsVars, buildVars>>

InitPlanner ==
    /\ astate = [a \in Actions |-> IDLE]
    /\ world_state_ \in [WorldKeys -> BOOLEAN]
    /\ current_plan_ = <<>>
    /\ current_goal_ = 0
    /\ goals_ = <<>>
    /\ agent_active_nodes_ = {}
    /\ planning_cooldown_ = 0
    /\ atrace = <<>>
    /\ aop = NONE
    /\ available_actions_ \in ActionLists
    /\ max_iterations_ \in 1..MaxIterationsArg
    /\ planned = NotPlanned
    /\ calls = <<>>

(* the goals whose plan is computed in one step: the leaf goals and the composite *)
(* goals with sub-goals (the calls CreatePlan makes for the others are followed   *)
(* one by one below)                                                              *)
DecomposedGoals ==
    {g \in 1..Len(GoalDefs) : GoalDefs[g].is_composite_ => GoalDefs[g].sub_goals_ # <<>>}

NextPlanner == \E goal \in DecomposedGoals : PlannerCreatePlan(goal)

-----------------------------------------------------------------------------
(* Planner.CreatePlan followed call by call.  A call in progress holds its goal, *)
(* the state it was given, and for a composite goal the locals of               *)
(* CreateHierarchicalPlan: the position in sub_goals and the record H.          *)

(* the deepest nesting of calls followed *)
MaxDepth == 4

Call(goal, current_state) ==
    [goal |-> goal, current_state |-> current_state, i |-> 1,
     H |-> [combined_actions |-> <<>>, total_cost |-> 0,
            current_work_state |-> Clone(current_state), failed |-> FALSE]]

Innermost == calls[Len(calls)]

(* the call has nothing left to call: a leaf goal, or the loop of lines 379-392 *)
(* has ended                                                                    *)
Finished(call) ==
    \/ ~GoalDefs[call.goal].is_composite_
    \/ call.H.failed
    \/ call.i > Len(DecomposeIntoSubgoals(call.goal))

(* what the finished call returns: <<>> (undefined) or <<plan>> *)
Outcome(call) ==
    IF GoalDefs[call.goal].is_composite_ THEN HierarchicalResult(call.H, call.goal)
    ELSE LeafSearch(call.current_state, call.goal).plan

plannerFrame == <<astate, world_state_, current_plan_, current_goal_, goals_,
                  agent_active_nodes_, planning_cooldown_, atrace, aop,
                  available_actions_, max_iterations_, btVars, unitVars, fsmVars, wsVars,
                  buildVars>>

(* planner.CreatePlan(world_state, goal, actions) is called *)
CallCreatePlan(goal) ==
    /\ calls = <<>>
    /\ planned = NotPlanned
    /\ calls' = <<Call(goal, world_state_)>>
    /\ UNCHANGED <<planned, plannerFrame>>

(* line 380: this.CreatePlan(current_work_state, sub_goal, available_actions) *)
CallSubGoal ==
    /\ calls # <<>>
    /\ ~Finished(Innermost)
    /\ Len(calls) < MaxDepth
    /\ calls' = Append(calls, Call(DecomposeIntoSubgoals(Innermost.goal)[Innermost.i],
                                   Innermost.H.current_work_state))
    /\ UNCHANGED <<planned, plannerFrame>>

(* the caller of line 380 after sub_plan was returned to it *)
Resume(caller, sub_plan) ==
    [caller EXCEPT !.H = HierarchicalStep(@, sub_plan), !.i = @ + 1]

(* the innermost call returns, to the caller of line 380 or to the user *)
ReturnPlan ==
    /\ calls # <<>>
    /\ Finished(Innermost)
    /\ IF Len(calls) = 1
       THEN /\ calls' = <<>>
            /\ planned' = [goal |-> Innermost.goal, plan |-> Outcome(Innermost)]
       ELSE /\ calls' = [SubSeq(calls, 1, Len(calls) - 1) EXCEPT
                            ![Len(calls) - 1] = Resume(@, Outcome(Innermost))]
            /\ planned' = planned
    /\ UNCHANGED plannerFrame

InitCalls ==
    /\ astate = [a \in Actions |-> IDLE]
    /\ world_state_ \in [WorldKeys -> BOOLEAN]
    /\ current_plan_ = <<>>
    /\ current_goal_ = 0
    /\ goals_ = <<>>
    /\ agent_active_nodes_ = {}
    /\ planning_cooldown_ = 0
    /\ atrace = <<>>
    /\ aop = NONE
    /\ available_actions_ \in ActionLists
    /\ max_iterations_ = max_iterations
    /\ planned = NotPlanned
    /\ calls = <<>>

NextCalls ==
    \/ \E goal \in 1..Len(GoalDefs) : CallCreatePlan(goal)
    \/ CallSubGoal
    \/ ReturnPlan

-----------------------------------------------------------------------------
(* WorldState over compound values. A value is a scalar [v |-> n] or a     *)
(* table [ref |-> a], a reference into heap: Luau copies, passes and       *)
(* compares (==) tables by reference.                                      *)

MaxRefs == 2
MaxArrayLen == 2
MaxScalar == 1

ValueKeys == {"ammo", "items"}
Elements == {"x", "y"}
Targets == {"original", "other"}

Scalar(n) == [v |-> n]
Table(a) == [ref |-> a]
IsTable(value) == "ref" \in DOMAIN value

(* Blackboard.SetWild, data_.set(key, value) *)
DataSet(data_, key, value) ==
    [k \in DOMAIN data_ \cup {key} |-> IF k = key THEN value ELSE data_[k]]

DataOf(target) == IF target = "original" THEN original ELSE other

WsCommit(target, data_, name) ==
    /\ original' = IF target = "original" THEN data_ ELSE original
    /\ other' = IF target = "other" THEN data_ ELSE other
    /\ wcall' = [name |-> name, target |-> target]

(* ws.SetWild(key, n) *)
WsSetWild(target, key, n) ==
    /\ WsCommit(target, DataSet(DataOf(target), key, Scalar(n)), "SetWild")
    /\ UNCHANGED <<heap, cloned, btVars, unitVars, goapVars, fsmVars, buildVars>>

(* ws.SetWild(key, [...]) with an array built for the call *)
WsSetWildArray(target, key, array) ==
    /\ Len(heap) < MaxRefs
    /\ heap' = Append(heap, array)
    /\ WsCommit(target, DataSet(DataOf(target), key, Table(Len(heap) + 1)), "SetWild")
    /\ UNCHANGED <<cloned, btVars, unitVars, goapVars, fsmVars, buildVars>>

(* Effect.Insert: other_v.push(v); the table itself is returned *)
EffectInsert(v, other_v) == [heap EXCEPT ![other_v.ref] = Append(@, v)]

(* the first position of value in the array, 0 when it has none *)
IndexOf(array, value) ==
    IF \E i \in 1..Len(array) : array[i] = value
    THEN CHOOSE i \in 1..Len(array) :
             array[i] = value /\ \A j \in 1..(i - 1) : array[j] # value
    ELSE 0

RemoveAt(array, i) ==
    IF i = 0 THEN array
    ELSE [j \in 1..(Len(array) - 1) |-> IF j < i THEN array[j] ELSE array[j + 1]]

(* Effect.Remove: other_v.remove(other_v.indexOf(value)); the table itself is returned *)
EffectRemove(value, other_v) ==
    [heap EXCEPT ![other_v.ref] = RemoveAt(@, IndexOf(@, value))]

(* ws.ApplyEffects(new Map([[key, Effect.Set(n)]])) *)
WsApplySet(target, key, n) ==
    /\ WsCommit(target, DataSet(DataOf(target), key, Scalar(n)), "ApplyEffects")
    /\ UNCHANGED <<heap, cloned, btVars, unitVars, goapVars, fsmVars, buildVars>>

(* ws.ApplyEffects(new Map([[key, Effect.Insert(v)]])): the effect throws unless the *)
(* value is a table; the table is written back under the key                         *)
WsApplyInsert(target, key, v) ==
    /\ key \in DOMAIN DataOf(target)
    /\ IsTable(DataOf(target)[key])
    /\ Len(heap[DataOf(target)[key].ref]) < MaxArrayLen
    /\ heap' = EffectInsert(v, DataOf(target)[key])
    /\ WsCommit(target, DataSet(DataOf(target), key, DataOf(target)[key]), "ApplyEffects")
    /\ UNCHANGED <<cloned, btVars, unitVars, goapVars, fsmVars, buildVars>>

(* ws.ApplyEffects(new Map([[key, Effect.Remove(v)]])) *)
WsApplyRemove(target, key, v) ==
    /\ key \in DOMAIN DataOf(target)
    /\ IsTable(DataOf(target)[key])
    /\ heap' = EffectRemove(v, DataOf(target)[key])
    /\ WsCommit(target, DataSet(DataOf(target), key, DataOf(target)[key]), "ApplyEffects")
    /\ UNCHANGED <<cloned, btVars, unitVars, goapVars, fsmVars, buildVars>>

(* other = original.Clone(): table.clone(data_), a copy of the entries *)
WsClone ==
    /\ other' = Clone(original)
    /\ cloned' = TRUE
    /\ wcall' = [name |-> "Clone", target |-> "original"]
    /\ UNCHANGED <<heap, original, btVars, unitVars, goapVars, fsmVars, buildVars>>

(* other = new WorldState({}) *)
WsNew ==
    /\ other' = <<>>
    /\ cloned' = FALSE
    /\ wcall' = [name |-> "new", target |-> "other"]
    /\ UNCHANGED <<heap, original, btVars, unitVars, goapVars, fsmVars, buildVars>>

(* Planner.CreatePlan(original, goal, [load]) for the leaf goal that requires   *)
(* ammo Eq(1) and the one action load, without requirements, whose effects are *)
(* items Effect.Insert(v) or Effect.Remove(v) and ammo Effect.Set(1).          *)
(* Goal.IsSatisfied(current_state), line 297 *)
LoadedAlready(current_state) ==
    "ammo" \in DOMAIN current_state /\ current_state["ammo"] = Scalar(1)

(* lines 335-336: new_state.ApplyEffects(...) as it leaves the tables *)
NewStateEffects(effect, v, new_state) ==
    IF effect = "Insert" THEN EffectInsert(v, new_state["items"])
    ELSE EffectRemove(v, new_state["items"])

(* lines 305-336: the start node holds current_state.Clone(); its expansion     *)
(* applies the effects of load to start_node.Clone(); the node enqueued for the *)
(* new state satisfies the goal and ends the search in the next iteration       *)
SearchLoad(effect, v, start_node) == NewStateEffects(effect, v, Clone(start_node))

WsCreatePlan(effect, v) ==
    /\ "items" \in DOMAIN original
    /\ IsTable(original["items"])
    /\ effect = "Insert" => Len(heap[original["items"].ref]) < MaxArrayLen
    /\ heap' = IF LoadedAlready(original) THEN heap
               ELSE SearchLoad(effect, v, Clone(original))
    /\ wcall' = [name |-> "CreatePlan", target |-> "original"]
    /\ UNCHANGED <<original, other, cloned, btVars, unitVars, goapVars, fsmVars, buildVars>>

InitWorldState ==
    /\ heap = <<>>
    /\ original = <<>>
    /\ other = <<>>
    /\ cloned = FALSE
    /\ wcall = [name |-> "new", target |-> "other"]

Arrays == UNION {[1..n -> Elements] : n \in 0..1}

NextWorldState ==
    \/ \E target \in Targets, key \in ValueKeys, n \in 0..MaxScalar : WsSetWild(target, key, n)
    \/ \E target \in Targets, key \in ValueKeys, array \in Arrays :
          WsSetWildArray(target, key, array)
    \/ \E target \in Targets, key \in ValueKeys, n \in 0..MaxScalar : WsApplySet(target, key, n)
    \/ \E target \in Targets, key \in ValueKeys, v \in Elements : WsApplyInsert(target, key, v)
    \/ \E target \in Targets, key \in ValueKeys, v \in Elements : WsApplyRemove(target, key, v)
    \/ WsClone
    \/ WsNew
    \/ \E effect \in {"Insert", "Remove"}, v \in Elements : WsCreatePlan(effect, v)

-----------------------------------------------------------------------------
(* Building an IfThenElse or a WhileDoElse: the constructor, AddChild and  *)
(* AddChildren, new BehaviorTree(root, bb) and the first Tick.  The        *)
(* children are leaves; what they return is left open.                     *)

MaxChildren == 4

ConditionalKinds == {"IfThenElse", "WhileDoElse"}

(* new IfThenElse() / new WhileDoElse(): children_ = [], state_ = IDLE *)
NewConditional(kind_) ==
    [kind |-> kind_, size |-> 0, state_ |-> IDLE, in_tree |-> FALSE, ticked |-> FALSE,
     error |-> NONE, call |-> "new"]

BuildNew(kind_) ==
    /\ build' = NewConditional(kind_)
    /\ UNCHANGED <<btVars, unitVars, goapVars, fsmVars, wsVars>>

(* Composite.AddChild: children_.push(child) *)
BuildAddChild ==
    /\ build.size < MaxChildren
    /\ build' = [build EXCEPT !.size = @ + 1, !.call = "AddChild"]
    /\ UNCHANGED <<btVars, unitVars, goapVars, fsmVars, wsVars>>

(* Composite.AddChildren(...children) with count children *)
BuildAddChildren(count) ==
    /\ build.size + count <= MaxChildren
    /\ build' = [build EXCEPT !.size = @ + count, !.call = "AddChildren"]
    /\ UNCHANGED <<btVars, unitVars, goapVars, fsmVars, wsVars>>

(* new BehaviorTree(node, bb): the two fields are stored *)
BuildTree ==
    /\ ~build.in_tree
    /\ build' = [build EXCEPT !.in_tree = TRUE, !.call = "BehaviorTree"]
    /\ UNCHANGED <<btVars, unitVars, goapVars, fsmVars, wsVars>>

(* IfThenElse.OnTick / WhileDoElse.OnTick, first statement *)
WrongSize(b) == b.size < 2 \/ b.size > 3

(* Tick of the node: Node.Tick sets state_ = RUNNING and calls OnStart, then *)
(* OnTick throws on a wrong number of children, leaving state_ as it is;    *)
(* otherwise the children are ticked and the node ends RUNNING or IDLE      *)
BuildTick(running) ==
    /\ build' = IF WrongSize(build)
                THEN [build EXCEPT !.state_ = RUNNING, !.ticked = TRUE, !.error = "OnTick",
                                   !.call = "Tick"]
                ELSE [build EXCEPT !.state_ = IF running THEN RUNNING ELSE IDLE,
                                   !.ticked = TRUE, !.error = NONE, !.call = "Tick"]
    /\ UNCHANGED <<btVars, unitVars, goapVars, fsmVars, wsVars>>

InitBuild == build \in {NewConditional(kind_) : kind_ \in ConditionalKinds}

NextBuild ==
    \/ \E kind_ \in ConditionalKinds : BuildNew(kind_)
    \/ BuildAddChild
    \/ \E count \in 2..3 : BuildAddChildren(count)
    \/ BuildTree
    \/ \E running \in BOOLEAN : BuildTick(running)

-----------------------------------------------------------------------------
(* FSM (src/unnamed/part_000, lines 161-311).  States are user objects:    *)
(* their OnEnter / OnExit / Update calls are recorded in ftrace together   *)
(* with the assignments to current_state_.  A condition is a user callback *)
(* named by a key; what it returns during a call is an input of the call.  *)

MaxTransitions == 2
MaxPriority == 2

FsmIds == {"A", "B", "C"}
(* the ids RegisterState is called with: "C" is an id transitions may name *)
(* although no state is registered under it                               *)
RegisteredIds == {"A", "B"}
Events == {"e1", "e2"}
Conditions == {"c1"}
default_state_ == "A"

(* ITransition; Condition NONE when the argument is left out *)
Transition(to, priority, condition) == [To |-> to, Priority |-> priority, Condition |-> condition]

(* mutant: the lists are sorted by ascending priority *)
SortedAscending(list) ==
    {[i \in 1..Len(list) |-> list[f[i]]] :
        f \in {g \in [1..Len(list) -> 1..Len(list)] :
                  /\ \A i, j \in 1..Len(list) : i # j => g[i] # g[j]
                  /\ \A i, j \in 1..Len(list) : i < j => list[g[i]].Priority <= list[g[j]].Priority}}

(* list.sort((a, b) => a.Priority > b.Priority): the orders a sort by descending   *)
(* priority can leave the list in (the order of equal priorities is not specified) *)
SortedByPriority(list) ==
    {[i \in 1..Len(list) |-> list[f[i]]] :
        f \in {g \in [1..Len(list) -> 1..Len(list)] :
                  /\ \A i, j \in 1..Len(list) : i # j => g[i] # g[j]
                  /\ \A i, j \in 1..Len(list) : i < j => list[g[i]].Priority >= list[g[j]].Priority}}

(* the number of transitions registered in all the tables *)
Registered ==
    Cardinality({x \in FsmIds \X (1..MaxTransitions) : x[2] <= Len(transitions_[x[1]])})
    + Len(any_transitions_)
    + Cardinality({x \in FsmIds \X Events \X (1..MaxTransitions) :
                      x[3] <= Len(event_transitions_[x[1]][x[2]])})

(* transition.Condition?.(this.blackboard_) === false, negated *)
Satisfied(transition, cv) ==
    ~(transition.Condition # NONE /\ cv[transition.Condition] = FALSE)

(* FSM.Update, lines 204-208 and 211-215: the target of the first transition *)
(* of the list that is not skipped, NONE when the loop ends without a break  *)
FirstSatisfied(list, cv) ==
    IF \E i \in 1..Len(list) : Satisfied(list[i], cv)
    THEN list[CHOOSE i \in 1..Len(list) :
                 /\ Satisfied(list[i], cv)
                 /\ \A j \in 1..(i - 1) : ~Satisfied(list[j], cv)].To
    ELSE NONE

(* mutant: the any-state list is scanned before the current state's list *)
StateToSetAnyFirst(cv) ==
    IF FirstSatisfied(any_transitions_, cv) # NONE
    THEN FirstSatisfied(any_transitions_, cv)
    ELSE FirstSatisfied(transitions_[current_state_], cv)

(* FSM.Update, lines 202-216 *)
StateToSet(cv) ==
    IF FirstSatisfied(transitions_[current_state_], cv) # NONE
    THEN FirstSatisfied(transitions_[current_state_], cv)
    ELSE FirstSatisfied(any_transitions_, cv)

(* this.states_.get(id)?.OnEnter / OnExit / Update: called when id is registered *)
Callback(name, id) == IF id \in states_ THEN << <<name, id>> >> ELSE <<>>

(* lines 219-221 and 297-299: leave the current state for state_to_set *)
Switch(state_to_set) ==
    Callback("OnExit", current_state_) \o << <<"Set", state_to_set>> >>
        \o Callback("OnEnter", state_to_set)

(* the call: its name, the event name and condition results it was given (NONE when it
   takes none), and current_state_ on entry *)
FsmCall(name, event_name, cv) ==
    [name |-> name, event_name |-> event_name, cv |-> cv, current |-> current_state_]

(* FSM.RegisterState *)
RegisterState(name) ==
    /\ states_' = states_ \cup {name}
    /\ fcall' = FsmCall("RegisterState", NONE, NONE)
    /\ ftrace' = <<>>
    /\ UNCHANGED <<transitions_, event_transitions_, any_transitions_, current_state_, otherVars>>

(* the assert of lines 234 and 264 failed: the call ends with an error *)
ConfigurationError ==
    /\ fcall' = FsmCall("error", NONE, NONE)
    /\ ftrace' = <<>>
    /\ UNCHANGED <<states_, transitions_, event_transitions_, any_transitions_, current_state_, otherVars>>

(* mutant: the transition is registered although from equals to *)
AddTransitionUnchecked(from, to, priority, condition) ==
    /\ Registered < MaxTransitions
    /\ \E sorted \in SortedByPriority(Append(transitions_[from],
                                             Transition(to, priority, condition))) :
          transitions_' = [transitions_ EXCEPT ![from] = sorted]
    /\ fcall' = FsmCall("AddTransition", NONE, NONE)
    /\ ftrace' = <<>>
    /\ UNCHANGED <<states_, event_transitions_, any_transitions_, current_state_, otherVars>>

(* FSM.AddTransition *)
AddTransition(from, to, priority, condition) ==
    IF from = to
    THEN ConfigurationError
    ELSE    /\ Registered < MaxTransitions
            /\ \E sorted \in SortedByPriority(Append(transitions_[from],
                                                     Transition(to, priority, condition))) :
                  transitions_' = [transitions_ EXCEPT ![from] = sorted]
            /\ fcall' = FsmCall("AddTransition", NONE, NONE)
            /\ ftrace' = <<>>
            /\ UNCHANGED <<states_, event_transitions_, any_transitions_, current_state_, otherVars>>

(* FSM.AddAnyTransition *)
AddAnyTransition(to, priority, condition) ==
    /\ Registered < MaxTransitions
    /\ \E sorted \in SortedByPriority(Append(any_transitions_,
                                             Transition(to, priority, condition))) :
          any_transitions_' = sorted
    /\ fcall' = FsmCall("AddAnyTransition", NONE, NONE)
    /\ ftrace' = <<>>
    /\ UNCHANGED <<states_, transitions_, event_transitions_, current_state_, otherVars>>

(* FSM.AddEventTransition *)
AddEventTransition(from, to, event_name, priority, condition) ==
    IF from = to
    THEN ConfigurationError
    ELSE    /\ Registered < MaxTransitions
            /\ \E sorted \in SortedByPriority(Append(event_transitions_[from][event_name],
                                                     Transition(to, priority, condition))) :
                  event_transitions_' = [event_transitions_ EXCEPT ![from][event_name] = sorted]
            /\ fcall' = FsmCall("AddEventTransition", NONE, NONE)
            /\ ftrace' = <<>>
            /\ UNCHANGED <<states_, transitions_, any_transitions_, current_state_, otherVars>>

(* FSM.Start: FSM.OnEnter (no lifecycle callback is bound) *)
Start ==
    /\ current_state_' = default_state_
    /\ ftrace' = << <<"Set", default_state_>> >> \o Callback("OnEnter", default_state_)
    /\ fcall' = FsmCall("Start", NONE, NONE)
    /\ UNCHANGED <<states_, transitions_, event_transitions_, any_transitions_, otherVars>>

(* FSM.Stop: FSM.OnExit (no lifecycle callback is bound) *)
Stop ==
    /\ ftrace' = Callback("OnExit", current_state_)
    /\ fcall' = FsmCall("Stop", NONE, NONE)
    /\ UNCHANGED <<states_, transitions_, event_transitions_, any_transitions_, current_state_, otherVars>>

(* FSM.Update, lines 218-225, with state_to_set computed *)
UpdateTo(state_to_set) ==
    IF state_to_set # NONE
    THEN /\ current_state_' = state_to_set
         /\ ftrace' = Switch(state_to_set) \o Callback("Update", state_to_set)
    ELSE /\ current_state_' = current_state_
         /\ ftrace' = Callback("Update", current_state_)

(* FSM.Update; cv: what each condition returns during this call *)
FsmUpdate(dt, cv) ==
    /\ UpdateTo(StateToSet(cv))
    /\ fcall' = FsmCall("Update", NONE, cv)
    /\ UNCHANGED <<states_, transitions_, event_transitions_, any_transitions_, otherVars>>

RECURSIVE BestTransition(_, _, _, _)

(* mutant: the comparison of priorities is reversed *)
BestTransitionLowest(transitions, cv, i, best_transition) ==
    IF i > Len(transitions) THEN best_transition
    ELSE BestTransition(transitions, cv, i + 1,
             IF ~Satisfied(transitions[i], cv) THEN best_transition
             ELSE IF best_transition = <<>>
                     \/ transitions[i].Priority < best_transition[1].Priority
             THEN <<transitions[i]>>
             ELSE best_transition)

(* FSM.HandleEvent, lines 289-295: the loop over transitions from position i *)
BestTransition(transitions, cv, i, best_transition) ==
    IF i > Len(transitions) THEN best_transition
    ELSE BestTransition(transitions, cv, i + 1,
             IF ~Satisfied(transitions[i], cv) THEN best_transition
             ELSE IF best_transition = <<>>
                     \/ transitions[i].Priority > best_transition[1].Priority
             THEN <<transitions[i]>>
             ELSE best_transition)

(* FSM.HandleEvent, lines 296-299 *)
HandleBest(best_transition) ==
    IF best_transition = <<>>
    THEN /\ current_state_' = current_state_
         /\ ftrace' = <<>>
    ELSE /\ current_state_' = best_transition[1].To
         /\ ftrace' = Switch(best_transition[1].To)

(* FSM.HandleEvent; a state or event without a list holds the empty list *)
HandleEvent(event_name, cv) ==
    /\ HandleBest(BestTransition(event_transitions_[current_state_][event_name], cv, 1, <<>>))
    /\ fcall' = FsmCall("HandleEvent", event_name, cv)
    /\ UNCHANGED <<states_, transitions_, event_transitions_, any_transitions_, otherVars>>

InitFsm ==
    /\ states_ = {}
    /\ transitions_ = [id \in FsmIds |-> <<>>]
    /\ event_transitions_ = [id \in FsmIds |-> [e \in Events |-> <<>>]]
    /\ any_transitions_ = <<>>
    /\ current_state_ = default_state_
    /\ fcall = FsmCall("new", NONE, NONE)
    /\ ftrace = <<>>

(* the (priority, condition) pairs transitions are registered with *)
TransitionArgs == {<<p, NONE>> : p \in 1..MaxPriority} \cup {<<MaxPriority, c>> : c \in Conditions}

NextFsm ==
    \/ \E name \in RegisteredIds : RegisterState(name)
    \/ \E from \in FsmIds, to \in FsmIds, pc \in TransitionArgs :
          AddTransition(from, to, pc[1], pc[2])
    \/ \E to \in FsmIds, pc \in TransitionArgs : AddAnyTransition(to, pc[1], pc[2])
    \/ \E from \in FsmIds, to \in FsmIds, event_name \in Events, pc \in TransitionArgs :
          AddEventTransition(from, to, event_name, pc[1], pc[2])
    \/ Start
    \/ Stop
    \/ \E dt \in 1..MaxDt, cv \in [Conditions -> BOOLEAN] : FsmUpdate(dt, cv)
    \/ \E event_name \in Events, cv \in [Conditions -> BOOLEAN] : HandleEvent(event_name, cv)

-----------------------------------------------------------------------------
(* A node and an action driven directly through their public Tick / Halt,  *)
(* with the complete event history kept.                                   *)

UnitTree == Trees[1]
Unit == 1
UnitAction == 1

AppendHist(c) ==
    /\ ns' = c.ns
    /\ hist' = hist \o c.log

AppendAHist(c) ==
    /\ astate' = c.as
    /\ ahist' = ahist \o c.log

NodeTickOp(cb, st) ==
    /\ Len(hist) < MaxHist
    /\ AppendHist(Tick(Unit, Ctx(ns, 1, [n \in {Unit} |-> cb], [n \in {Unit} |-> st])))
    /\ UNCHANGED <<tree, active_nodes_, trace, ret, op, mid_running, frame, ahist, goapVars, fsmVars, wsVars, buildVars>>

NodeHaltOp ==
    /\ Len(hist) < MaxHist
    /\ AppendHist(Halt(Unit, Ctx(ns, 0, <<>>, <<>>)))
    /\ UNCHANGED <<tree, active_nodes_, trace, ret, op, mid_running, frame, ahist, goapVars, fsmVars, wsVars, buildVars>>

ActionTickOp(cb, st) ==
    /\ Len(ahist) < MaxHist
    /\ AppendAHist(GoapTick(UnitAction, ACtx(astate, {}, [a \in {UnitAction} |-> cb],
                                             [a \in {UnitAction} |-> st])))
    /\ UNCHANGED <<btVars, hist, agentVars, fsmVars, wsVars, buildVars>>

ActionHaltOp ==
    /\ Len(ahist) < MaxHist
    /\ AppendAHist(GoapHalt(UnitAction, ACtx(astate, {}, <<>>, <<>>)))
    /\ UNCHANGED <<btVars, hist, agentVars, fsmVars, wsVars, buildVars>>

InitUnit ==
    /\ hist = <<>>
    /\ ahist = <<>>

InitContract ==
    /\ build = NewConditional("IfThenElse")
    /\ InitWorldState
    /\ InitFsm
    /\ InitBT
    /\ tree = UnitTree
    /\ InitUnit
    /\ InitGoap

NextContract ==
    \/ \E cb \in ENodeStatus, st \in ENodeStatus : NodeTickOp(cb, st)
    \/ NodeHaltOp
    \/ \E cb \in EActionStatus, st \in EActionStatus : ActionTickOp(cb, st)
    \/ ActionHaltOp

SpecContract == InitContract /\ [][NextContract]_vars

InitTree ==
    /\ build = NewConditional("IfThenElse")
    /\ InitWorldState
    /\ InitFsm
    /\ InitBT
    /\ InitUnit
    /\ InitGoap

SpecBT == InitTree /\ [][NextBT]_vars

(* A Cooldown as the root of a tree that is ticked again and again, every dt *)
(* smaller than cooldown_s_                                                  *)
InitCooldown ==
    /\ InitTree
    /\ kind(root_) = "Cooldown"

(* the child of the root was ticked / returned SUCCESS or FAILURE in the Tick *)
(* that left the log tr                                                        *)
ChildTickedIn(tr) == \E k \in 1..Len(tr) : tr[k][1] = "Tick" /\ tr[k][2] = child_(root_)
ChildCompletedIn(tr) ==
    \E k \in 1..Len(tr) :
        tr[k][1] = "Return" /\ tr[k][2] = child_(root_) /\ tr[k][3] # RUNNING

(* the clock of the game that ticks the Cooldown: whether the child has completed *)
(* and was not ticked since, the time elapsed since that completion, and the dt   *)
(* of the last Tick                                                               *)
Clock(h, dt, tr) ==
    [completed |-> IF ChildTickedIn(tr) THEN ChildCompletedIn(tr)
                   ELSE h # <<>> /\ h[1].completed,
     elapsed |-> IF ChildTickedIn(tr) \/ h = <<>> THEN 0 ELSE h[1].elapsed + dt,
     dt |-> dt]

(* BehaviorTree.Tick(dt) on a tree whose root is a Cooldown, with 0 < dt < cooldown_s_ *)
TimedTick(dt, cb, st) ==
    /\ dt < cooldown_s_(root_)
    /\ hist # <<>> => hist[1].elapsed < cooldown_s_(root_) + MaxOverdue
    /\ TickRoot(dt, cb, st)
    /\ hist' = <<Clock(hist, dt, trace')>>
    /\ UNCHANGED <<tree, ahist, goapVars, fsmVars, wsVars, buildVars>>

NextCooldown ==
    \E dt \in 1..MaxDt, cb \in [LeavesOf(tree) -> ENodeStatus],
       st \in [CustomOf(tree) -> ENodeStatus] : TimedTick(dt, cb, st)

SpecCooldown == InitCooldown /\ [][NextCooldown]_vars

InitAgent ==
    /\ build = NewConditional("IfThenElse")
    /\ InitWorldState
    /\ InitFsm
    /\ InitBT
    /\ tree = UnitTree
    /\ InitUnit
    /\ InitGoap

SpecAgent == InitAgent /\ [][NextAgent]_vars

InitFsmSpec ==
    /\ build = NewConditional("IfThenElse")
    /\ InitWorldState
    /\ InitFsm
    /\ InitBT
    /\ tree = UnitTree
    /\ InitUnit
    /\ InitGoap

InitPlannerSpec ==
    /\ build = NewConditional("IfThenElse")
    /\ InitWorldState
    /\ InitFsm
    /\ InitBT
    /\ tree = UnitTree
    /\ InitUnit
    /\ InitPlanner

SpecPlanner == InitPlannerSpec /\ [][NextPlanner]_vars

InitCallsSpec ==
    /\ build = NewConditional("IfThenElse")
    /\ InitWorldState
    /\ InitFsm
    /\ InitBT
    /\ tree = UnitTree
    /\ InitUnit
    /\ InitCalls

SpecCalls == InitCallsSpec /\ [][NextCalls]_vars

InitWorldStateSpec ==
    /\ build = NewConditional("IfThenElse")
    /\ InitWorldState
    /\ InitFsm
    /\ InitBT
    /\ tree = UnitTree
    /\ InitUnit
    /\ InitGoap

SpecWorldState == InitWorldStateSpec /\ [][NextWorldState]_vars

InitBuildSpec ==
    /\ InitBuild
    /\ InitWorldState
    /\ InitFsm
    /\ InitBT
    /\ tree = UnitTree
    /\ InitUnit
    /\ InitGoap

SpecBuild == InitBuildSpec /\ [][NextBuild]_vars

SpecFsm == InitFsmSpec /\ [][NextFsm]_vars

-----------------------------------------------------------------------------
(* Reading an event history.  An operation starts at a "Tick" or "Halt"    *)
(* event, which records the lifecycle state on entry; its events run up to *)
(* the next operation's first event.                                       *)

OpStarts(h) == {i \in 1..Len(h) : h[i][1] \in {"Tick", "Halt"}}
OpEnd(h, i) ==
    LET later == {j \in OpStarts(h) : j > i}
    IN IF later = {} THEN Len(h)
       ELSE (CHOOSE j \in later : \A k \in later : j <= k) - 1
Seg(h, i) == SubSeq(h, i, OpEnd(h, i))
HasNextOp(h, i) == OpEnd(h, i) < Len(h)
(* lifecycle state when operation i returned: the entry state of the next  *)
(* operation, or the current state cur when i is the last one              *)
After(h, i, cur) == IF HasNextOp(h, i) THEN h[OpEnd(h, i) + 1][3] ELSE cur
Count(g, ev) == Cardinality({k \in 1..Len(g) : g[k][1] = ev})
TickOps(h) == {i \in OpStarts(h) : h[i][1] = "Tick"}
HaltOps(h) == {i \in OpStarts(h) : h[i][1] = "Halt"}
Returned(h, i) == Seg(h, i)[Len(Seg(h, i))][3]

(* C1 for one unit with history h and current lifecycle state cur *)
FreshRunContract(h, cur) ==
    \A i \in TickOps(h) : h[i][3] = IDLE =>
        LET g == Seg(h, i)
            u == h[i][2]
            s == g[2][3]
        IN /\ g[2][1] = "OnStart"
           /\ s # RUNNING =>
                 /\ g = << h[i], <<"OnStart", u, s>>, <<"OnFinish", u, s>>,
                           <<"Return", u, s>> >>
                 /\ After(h, i, cur) = IDLE
           /\ s = RUNNING =>
                 /\ g[3][1] = "OnTick"
                 /\ g[Len(g)] = <<"Return", u, g[3][3]>>

\* C1: a Tick on an IDLE unit (BTree.Node and Goap.Action) calls OnStart first; a
\* SUCCESS/FAILURE from OnStart leaves the unit IDLE, calls OnFinish with that status,
\* calls no OnTick and is returned; a RUNNING from OnStart is followed by OnTick in the
\* same Tick call, whose status is what Tick returns.
C1_FreshRun ==
    /\ FreshRunContract(hist, ns[Unit].state_)
    /\ FreshRunContract(ahist, astate[UnitAction])

FreshStartedWith(h, s) ==
    \E i \in TickOps(h) : h[i][3] = IDLE /\ Seg(h, i)[2] = <<"OnStart", h[i][2], s>>

C1_Witness ==
    /\ FreshStartedWith(hist, RUNNING) /\ FreshStartedWith(hist, FAILURE)
    /\ FreshStartedWith(ahist, RUNNING) /\ FreshStartedWith(ahist, SUCCESS)

(* C2 for one unit *)
ResumedRunContract(h, cur) ==
    \A i \in TickOps(h) :
        LET g == Seg(h, i)
            u == h[i][2]
        IN /\ Count(g, "OnStart") = (IF h[i][3] = IDLE THEN 1 ELSE 0)
           /\ (After(h, i, cur) = RUNNING) <=> (Returned(h, i) = RUNNING)
           /\ h[i][3] = RUNNING =>
                 /\ g[2][1] = "OnTick"
                 /\ Count(g, "OnTick") = 1
                 /\ Returned(h, i) = g[2][3]
                 /\ g[2][3] # RUNNING =>
                       /\ After(h, i, cur) = IDLE
                       /\ Count(g, "OnFinish") = 1
                       /\ g[3] = <<"OnFinish", u, g[2][3]>>
                 /\ g[2][3] = RUNNING => Count(g, "OnFinish") = 0

\* C2: while a unit is RUNNING every Tick calls OnTick and never OnStart; the first
\* OnTick that returns SUCCESS/FAILURE puts the unit back to IDLE and calls OnFinish
\* exactly once with that status; OnStart is called once per episode (only by the fresh
\* Tick), and IsRunning() after a Tick is true exactly when the Tick returned RUNNING.
C2_ResumedRun ==
    /\ ResumedRunContract(hist, ns[Unit].state_)
    /\ ResumedRunContract(ahist, astate[UnitAction])

ResumedAndFinished(h) ==
    \E i \in TickOps(h), j \in TickOps(h) :
        /\ h[i][3] = RUNNING /\ Returned(h, i) = RUNNING
        /\ j > i /\ h[j][3] = RUNNING /\ Returned(h, j) = SUCCESS

C2_Witness == ResumedAndFinished(hist) /\ ResumedAndFinished(ahist)

(* C3 for one unit *)
HaltContract(h, cur) ==
    /\ cur \in {IDLE, RUNNING}
    /\ \A i \in OpStarts(h) : h[i][3] \in {IDLE, RUNNING}
    /\ \A i \in HaltOps(h) :
          LET g == Seg(h, i)
              u == h[i][2]
          IN /\ h[i][3] # RUNNING => g = << h[i] >> /\ After(h, i, cur) = h[i][3]
             /\ h[i][3] = RUNNING =>
                   /\ g = << h[i], <<"OnHalt", u, NONE>> >>
                   /\ After(h, i, cur) = IDLE
             /\ HasNextOp(h, i) =>
                   LET j == OpEnd(h, i) + 1
                   IN /\ h[j][1] = "Halt" => Count(g, "OnHalt") + Count(Seg(h, j), "OnHalt") <= 1
                      /\ h[j][1] = "Tick" => Seg(h, j)[2][1] = "OnStart"

\* C3: Halt() does nothing unless the unit is RUNNING (no OnHalt, no state change), so two
\* Halts in a row call OnHalt at most once; Halt on a RUNNING unit calls OnHalt exactly
\* once and leaves the unit IDLE, never HALTED, so the next Tick is a fresh run that calls
\* OnStart again.
C3_Halt ==
    /\ HaltContract(hist, ns[Unit].state_)
    /\ HaltContract(ahist, astate[UnitAction])

HaltedTwiceThenTicked(h) ==
    \E i \in HaltOps(h) :
        /\ h[i][3] = RUNNING
        /\ HasNextOp(h, i)
        /\ LET j == OpEnd(h, i) + 1
           IN h[j][1] = "Halt" /\ HasNextOp(h, j) /\ h[OpEnd(h, j) + 1][1] = "Tick"

HaltedThenTicked(h) ==
    \E i \in HaltOps(h) :
        h[i][3] = RUNNING /\ HasNextOp(h, i) /\ h[OpEnd(h, i) + 1][1] = "Tick"

C3_Witness == HaltedTwiceThenTicked(hist) /\ HaltedThenTicked(ahist)

-----------------------------------------------------------------------------
(* Reading the event log tr of one BehaviorTree operation.  A node of a    *)
(* tree is ticked at most once per BehaviorTree.Tick.                      *)

EventsOf(tr, ev, n) == {k \in 1..Len(tr) : tr[k][1] = ev /\ tr[k][2] = n}
WasTicked(tr, n) == EventsOf(tr, "Tick", n) # {}
PreState(tr, n) == tr[CHOOSE k \in EventsOf(tr, "Tick", n) : TRUE][3]
ReturnedStatus(tr, n) == tr[CHOOSE k \in EventsOf(tr, "Return", n) : TRUE][3]
DiffPos(tr) == CHOOSE k \in 1..Len(tr) : tr[k][1] = "Diff"
ChildSet(n) == {children_(n)[i] : i \in 1..size(n)}
IsChildTick(n, e) == e[1] = "Tick" /\ e[2] \in ChildSet(n)
(* the children of n ticked in this operation, in the order of the calls *)
ChildTickOrder(tr, n) == SelectSeq(tr, LAMBDA e : IsChildTick(n, e))
NodesOfKind(k) == {n \in Nodes : kind(n) = k}

\* C4: after every BehaviorTree.Tick, each node of the active set the tree held on entry
\* (the one the previous Tick produced) that is not in the new active set is not RUNNING,
\* and if it was still RUNNING when root_.Tick returned its OnHalt was called by the
\* halting loop.
C4_DroppedNodesHalted ==
    [][op' = "Tick" =>
         \A n \in active_nodes_ \ active_nodes_' :
            /\ ns'[n].state_ # RUNNING
            /\ n \in mid_running' =>
                  \E k \in EventsOf(trace', "OnHalt", n) : k > DiffPos(trace')]_vars

C4_Witness ==
    /\ op = "Tick"
    /\ \E n \in mid_running \ active_nodes_ :
          \E k \in EventsOf(trace, "OnHalt", n) : k > DiffPos(trace)

\* C5: after BehaviorTree.Halt() returns no node of the tree is RUNNING.
C5_HaltReachesEveryNode == op = "Halt" => RunningIn(ns) = {}

\* C7: a Sequence that is ticked ticks its children consecutively in declaration order,
\* starting at child 0 in a fresh episode and at the child that last reported RUNNING
\* (current_index_, a child that is RUNNING) in a resumed one; every ticked child but the
\* last succeeded; the Sequence returns FAILURE / RUNNING when the last ticked child
\* failed / is RUNNING and SUCCESS only when the last child of the list succeeded.
C7_Sequence ==
    [][op' = "Tick" =>
         \A sq \in NodesOfKind("Sequence") : WasTicked(trace', sq) =>
            LET order == ChildTickOrder(trace', sq)
                first == IF PreState(trace', sq) = IDLE THEN 0 ELSE ns[sq].current_index_
                last == order[Len(order)][2]
            IN /\ Len(order) >= 1
               /\ first + Len(order) <= size(sq)
               /\ \A j \in 1..Len(order) : order[j][2] = children_(sq)[first + j]
               /\ PreState(trace', sq) = RUNNING =>
                     ns[children_(sq)[first + 1]].state_ = RUNNING
               /\ \A j \in 1..(Len(order) - 1) :
                     ReturnedStatus(trace', order[j][2]) = SUCCESS
               /\ ReturnedStatus(trace', last) # SUCCESS =>
                     ReturnedStatus(trace', sq) = ReturnedStatus(trace', last)
               /\ ReturnedStatus(trace', last) = SUCCESS =>
                     /\ last = children_(sq)[size(sq)]
                     /\ ReturnedStatus(trace', sq) = SUCCESS]_vars

C7_Witness ==
    /\ op = "Tick"
    /\ \E sq \in NodesOfKind("Sequence") :
          /\ WasTicked(trace, sq)
          /\ PreState(trace, sq) = RUNNING
          /\ ReturnedStatus(trace, sq) = SUCCESS
          /\ ChildTickOrder(trace, sq)[1][2] = children_(sq)[2]
          /\ Len(ChildTickOrder(trace, sq)) = 2

RunningChildren(n) == {ch \in ChildSet(n) : ns[ch].state_ = RUNNING}

ReturnPos(tr, n) == CHOOSE k \in EventsOf(tr, "Return", n) : TRUE

\* C8: a ReactiveSequence that is ticked ticks its children from child 0, consecutively;
\* when child i reports RUNNING every earlier child has succeeded in this tick and every
\* later child that was RUNNING from the previous tick is halted before the tick returns,
\* so at most one child (child i) is RUNNING when the tick returns RUNNING.
C8_ReactiveSequence ==
    [][op' = "Tick" =>
         \A rs \in NodesOfKind("ReactiveSequence") : WasTicked(trace', rs) =>
            LET order == ChildTickOrder(trace', rs)
            IN /\ Len(order) >= 1
               /\ \A j \in 1..Len(order) : order[j][2] = children_(rs)[j]
               /\ ReturnedStatus(trace', rs) = RUNNING =>
                     /\ \A j \in 1..(Len(order) - 1) :
                           ReturnedStatus(trace', order[j][2]) = SUCCESS
                     /\ \A i \in (Len(order) + 1)..size(rs) :
                           ns[children_(rs)[i]].state_ = RUNNING =>
                              \E k \in EventsOf(trace', "OnHalt", children_(rs)[i]) :
                                 k < ReturnPos(trace', rs)
                     /\ rs = root_ =>
                           ChildSet(rs) \cap mid_running' = {order[Len(order)][2]}]_vars

C8_Witness ==
    /\ op = "Tick"
    /\ \E rs \in NodesOfKind("ReactiveSequence") :
          /\ WasTicked(trace, rs)
          /\ ReturnedStatus(trace, rs) = RUNNING
          /\ Cardinality(RunningChildren(rs)) = 1
          /\ \E i \in 1..size(rs) :
                /\ i > Len(ChildTickOrder(trace, rs))
                /\ \E k \in EventsOf(trace, "Halt", children_(rs)[i]) :
                      trace[k][3] = RUNNING /\ k < DiffPos(trace)

\* C9: when a ReactiveSequence or ReactiveFallback (here the root) returns SUCCESS or
\* FAILURE, none of its children is RUNNING when its Tick returns.
C9_ReactiveTerminalHaltsSiblings ==
    (op = "Tick" /\ kind(root_) \in {"ReactiveSequence", "ReactiveFallback"}
                 /\ ret \in {SUCCESS, FAILURE})
        => ChildSet(root_) \cap mid_running = {}

\* C10: on every tick a Parallel (here the root) ticks all of its children, in
\* declaration order.
C10_ParallelTicksAllChildren ==
    (op = "Tick" /\ kind(root_) = "Parallel") =>
        /\ Len(ChildTickOrder(trace, root_)) = size(root_)
        /\ \A j \in 1..size(root_) : ChildTickOrder(trace, root_)[j][2] = children_(root_)[j]

\* C6: a RUNNING Goap action is halted before the agent abandons it: whenever the agent has
\* dropped or replaced its plan (requirements of the next action no longer hold, replanning,
\* RemoveGoal of the current goal, Reset) no action stays RUNNING unless it is the head of
\* the agent's current plan.
C6_AbandonedActionsHalted ==
    \A a \in Actions : astate[a] = RUNNING =>
        /\ current_plan_ # <<>>
        /\ ~IsEmpty(current_plan_)
        /\ GetNextAction(current_plan_) = a

TickedChildren(tr, n) == {ch \in ChildSet(n) : WasTicked(tr, ch)}

(* the children of n ticked in tr reported status s as the policy asks: one of them *)
(* under ONE, every child of n under ALL                                            *)
PolicyMet(tr, n, policy, s) ==
    IF policy = ONE
    THEN \E ch \in TickedChildren(tr, n) : ReturnedStatus(tr, ch) = s
    ELSE /\ TickedChildren(tr, n) = ChildSet(n)
         /\ \A ch \in ChildSet(n) : ReturnedStatus(tr, ch) = s

\* C11: whenever a ticked Parallel returns SUCCESS or FAILURE none of its children is
\* RUNNING when its Tick returns, and each child that was RUNNING and did not finish by
\* itself received OnHalt before the Parallel returned; SUCCESS / FAILURE is returned only
\* when the success / failure policy is met by the children's statuses of this tick (one
\* child under ONE, every child under ALL), and RUNNING only when neither policy is met.
C11_ParallelTerminal ==
    [][op' = "Tick" =>
         \A p \in NodesOfKind("Parallel") : WasTicked(trace', p) =>
            /\ ReturnedStatus(trace', p) \in {SUCCESS, FAILURE} =>
                  /\ ChildSet(p) \cap mid_running' = {}
                  /\ \A ch \in ChildSet(p) :
                        (IF WasTicked(trace', ch) THEN ReturnedStatus(trace', ch) = RUNNING
                                                  ELSE ns[ch].state_ = RUNNING)
                        => \E k \in EventsOf(trace', "OnHalt", ch) : k < ReturnPos(trace', p)
            /\ ReturnedStatus(trace', p) = SUCCESS =>
                  PolicyMet(trace', p, success_policy_(p), SUCCESS)
            /\ ReturnedStatus(trace', p) = FAILURE =>
                  PolicyMet(trace', p, failure_policy_(p), FAILURE)
            /\ ReturnedStatus(trace', p) = RUNNING =>
                  /\ ~PolicyMet(trace', p, success_policy_(p), SUCCESS)
                  /\ ~PolicyMet(trace', p, failure_policy_(p), FAILURE)]_vars

C11_Witness ==
    /\ op = "Tick"
    /\ \E p \in NodesOfKind("Parallel") :
          /\ success_policy_(p) = ONE /\ failure_policy_(p) = ALL
          /\ WasTicked(trace, p)
          /\ ReturnedStatus(trace, p) = SUCCESS
          /\ ReturnedStatus(trace, children_(p)[1]) = SUCCESS
          /\ EventsOf(trace, "OnHalt", children_(p)[2]) # {}

-----------------------------------------------------------------------------
(* MemorySequence *)

(* the 0-based positions of the children of n ticked in tr *)
TickedPositions(tr, n) == {i \in 0..(size(n) - 1) : WasTicked(tr, children_(n)[i + 1])}

Highest(positions) == CHOOSE i \in positions : \A j \in positions : j <= i

(* the OnTick of MemorySequence m that left the log tr, entered with index i *)
Resumed(tr, m, i) ==
    /\ TickedPositions(tr, m) # {}
    /\ \A k \in TickedPositions(tr, m) : k >= i
    /\ i \in TickedPositions(tr, m)
    /\ IF ReturnedStatus(tr, m) = SUCCESS
       THEN /\ ns'[m].current_index_ = 0
            /\ ReturnedStatus(tr, children_(m)[size(m)]) = SUCCESS
       ELSE /\ ns'[m].current_index_ = Highest(TickedPositions(tr, m))
            /\ ReturnedStatus(tr, children_(m)[Highest(TickedPositions(tr, m)) + 1])
                  = ReturnedStatus(tr, m)

(* C29: a MemorySequence keeps current_index_ between episodes. Its OnTick starts *)
(* at the child of that index, whatever ended the episode before (a FAILURE of   *)
(* that child or a Halt while it was RUNNING), and ticks no child before it; the *)
(* index is left at the child that returned FAILURE or RUNNING and goes back to  *)
(* 0 only in a pass whose last child succeeded; a Halt and an operation that     *)
(* does not tick the node leave the index as it is.                              *)
C29_MemorySequenceResumes ==
    [][\A m \in NodesOfKind("MemorySequence") :
          IF op' = "Tick" /\ WasTicked(trace', m)
          THEN Resumed(trace', m, ns[m].current_index_)
          ELSE ns'[m].current_index_ = ns[m].current_index_]_vars

(* a new episode of MemorySequence(a, b, c) that ticked its third child only *)
C29_Witness ==
    /\ op = "Tick"
    /\ \E m \in NodesOfKind("MemorySequence") :
          /\ size(m) = 3
          /\ WasTicked(trace, m)
          /\ PreState(trace, m) = IDLE
          /\ TickedPositions(trace, m) = {2}
          /\ ReturnedStatus(trace, m) = FAILURE
          /\ ns[m].current_index_ = 2

-----------------------------------------------------------------------------
(* RetryUntilFailure and RetryUntilSuccess *)

(* the child statuses counted in the episode of retry node r before this Tick: none *)
(* when the Tick starts the episode                                                 *)
CountedBefore(tr, r) == IF PreState(tr, r) = IDLE THEN 0 ELSE ns[r].current_attempts_

(* the Tick of retry node r that left the log tr: counted is the child status that  *)
(* is counted, ending the one that ends the episode at once, k the number counted   *)
(* in the episode so far                                                            *)
Retried(tr, r, counted, ending, k) ==
    /\ ReturnedStatus(tr, child_(r)) = ending => ReturnedStatus(tr, r) = ending
    /\ ReturnedStatus(tr, child_(r)) = RUNNING =>
          /\ ReturnedStatus(tr, r) = RUNNING
          /\ ns'[r].current_attempts_ = k
    /\ ReturnedStatus(tr, child_(r)) = counted =>
          IF max_attempts_(r) > 0 /\ k + 1 = max_attempts_(r)
          THEN ReturnedStatus(tr, r) = counted
          ELSE /\ ReturnedStatus(tr, r) = RUNNING
               /\ ns'[r].current_attempts_ = k + 1

(* the part of C30 about RetryUntilSuccess *)
RetryUntilSuccessPerEpisode ==
    [][op' = "Tick" =>
          \A r \in NodesOfKind("RetryUntilSuccess") : WasTicked(trace', r) =>
              Retried(trace', r, FAILURE, SUCCESS, CountedBefore(trace', r))]_vars

(* C30: RetryUntilFailure(child, N) counts the successes of its child per episode: *)
(* a Tick returns FAILURE when the child fails, SUCCESS when the child succeeds    *)
(* for the Nth time in the episode (never when N <= 0), RUNNING otherwise, the     *)
(* count starting at 0 in every fresh episode; RetryUntilSuccess is the dual,      *)
(* counting failures.                                                              *)
C30_RetryCountsPerEpisode ==
    [][op' = "Tick" =>
          /\ \A r \in NodesOfKind("RetryUntilFailure") : WasTicked(trace', r) =>
                Retried(trace', r, SUCCESS, FAILURE, CountedBefore(trace', r))
          /\ \A r \in NodesOfKind("RetryUntilSuccess") : WasTicked(trace', r) =>
                Retried(trace', r, FAILURE, SUCCESS, CountedBefore(trace', r))]_vars

(* a fresh episode of RetryUntilFailure(a, 2) returned SUCCESS at its first Tick *)
StaleAttemptsSucceed ==
    /\ op = "Tick"
    /\ \E r \in NodesOfKind("RetryUntilFailure") :
          /\ max_attempts_(r) = 2
          /\ WasTicked(trace, r)
          /\ PreState(trace, r) = IDLE
          /\ ReturnedStatus(trace, r) = SUCCESS

(* RetryUntilFailure without a positive N never returns SUCCESS *)
NoLimitNeverSucceeds ==
    \A r \in NodesOfKind("RetryUntilFailure") :
        (op = "Tick" /\ max_attempts_(r) <= 0 /\ WasTicked(trace, r)) =>
            ReturnedStatus(trace, r) # SUCCESS

-----------------------------------------------------------------------------
(* FSM: self-transitions *)

(* the states the last call made current *)
Entered == {ftrace[i][2] : i \in {k \in 1..Len(ftrace) : ftrace[k][1] = "Set"}}

(* C35: no self-transition ever fires: whenever Update or HandleEvent performs a *)
(* transition, the state entered differs from the state left, whatever per-state, *)
(* event and any-state transitions were registered.                              *)
C35_NoSelfTransitionFires ==
    fcall.name \in {"Update", "HandleEvent"} => fcall.current \notin Entered

(* HandleEvent never fires a self-transition *)
EventNoSelfTransitionFires == fcall.name = "HandleEvent" => fcall.current \notin Entered

(* an Update fires a self-transition only through the any-state list *)
SelfTransitionIsAnyState ==
    (fcall.name = "Update" /\ fcall.current \in Entered) =>
        /\ FirstSatisfied(transitions_[fcall.current], fcall.cv) = NONE
        /\ FirstSatisfied(any_transitions_, fcall.cv) = fcall.current

(* a registered state was left and entered again by one Update *)
SelfTransitionFired ==
    /\ fcall.name = "Update"
    /\ fcall.current \in Entered
    /\ fcall.current \in states_
    /\ ftrace = << <<"OnExit", fcall.current>>, <<"Set", fcall.current>>,
                   <<"OnEnter", fcall.current>>, <<"Update", fcall.current>> >>

-----------------------------------------------------------------------------
(* Cooldown *)

(* the countdown Cooldown node c tested in the OnTick that left the log tr *)
CountDown(tr, c) == tr[CHOOSE k \in EventsOf(tr, "CountDown", c) : TRUE][3]

(* the Tick of Cooldown node c that left the log tr *)
CooledDown(tr, c) ==
    /\ WasTicked(tr, child_(c)) => CountDown(tr, c) <= 0
    /\ CountDown(tr, c) > 0 =>
          /\ ~WasTicked(tr, child_(c))
          /\ ReturnedStatus(tr, c) = FAILURE
    /\ CountDown(tr, c) <= 0 =>
          /\ WasTicked(tr, child_(c))
          /\ ReturnedStatus(tr, c) = ReturnedStatus(tr, child_(c))
    /\ ReturnedStatus(tr, c) # RUNNING => ns'[c].time_left_ = cooldown_s_(c)
    /\ ReturnedStatus(tr, c) = RUNNING => ns'[c].time_left_ = CountDown(tr, c)

(* C31: a Cooldown ticks its child only when its countdown is at or below zero; *)
(* while the countdown is above zero it returns FAILURE without ticking the     *)
(* child, never RUNNING; the countdown is set to cooldown_s_ whenever the       *)
(* Cooldown finishes, and by a Halt of the running Cooldown only when           *)
(* reset_on_halt_ is true, a Halt leaving it unchanged otherwise.               *)
C31_CooldownGatesChild ==
    [][\A c \in NodesOfKind("Cooldown") :
          /\ (op' = "Tick" /\ WasTicked(trace', c)) => CooledDown(trace', c)
          /\ op' = "Halt" =>
                ns'[c].time_left_ = IF reset_on_halt_(c) /\ ns[c].state_ = RUNNING
                                    THEN cooldown_s_(c)
                                    ELSE ns[c].time_left_]_vars

(* a Cooldown that returned FAILURE while cooling, its child not ticked *)
C31_Witness ==
    /\ op = "Tick"
    /\ \E c \in NodesOfKind("Cooldown") :
          /\ WasTicked(trace, c)
          /\ CountDown(trace, c) > 0
          /\ ~WasTicked(trace, child_(c))
          /\ ReturnedStatus(trace, c) = FAILURE

(* a running Cooldown with reset_on_halt_ was halted below zero and is cooling *)
HaltReset ==
    /\ op = "Halt"
    /\ \E c \in NodesOfKind("Cooldown") :
          /\ reset_on_halt_(c)
          /\ EventsOf(trace, "OnHalt", c) # {}
          /\ ns[c].time_left_ = cooldown_s_(c)

(* the last Tick found the Cooldown cooling: FAILURE, the child not ticked *)
Cooling ==
    /\ op = "Tick"
    /\ \E c \in NodesOfKind("Cooldown") :
          WasTicked(trace, c) /\ CountDown(trace, c) > 0 /\ ~WasTicked(trace, child_(c))

(* the last Tick ticked the child of the Cooldown *)
ChildTicked ==
    /\ op = "Tick"
    /\ \E c \in NodesOfKind("Cooldown") : WasTicked(trace, child_(c))

(* C34: once the child of a Cooldown has completed, every Tick with a positive *)
(* dt smaller than cooldown_s_ ticks the child again exactly when the time      *)
(* elapsed since the completion, this dt included, reaches cooldown_s_: not     *)
(* before, and at the first such Tick.                                          *)
C34_CooldownExpires ==
    [][(hist # <<>> /\ hist[1].completed /\ op' = "Tick") =>
          (ChildTickedIn(trace') <=>
              hist[1].elapsed + hist'[1].dt >= cooldown_s_(root_))]_vars

(* the part that holds: the child is not ticked before the cooldown time elapsed *)
CooldownNotEarly ==
    [][(hist # <<>> /\ hist[1].completed /\ op' = "Tick" /\ ChildTickedIn(trace')) =>
          hist[1].elapsed + hist'[1].dt >= cooldown_s_(root_)]_vars

(* the cooldown time has elapsed since the completion, and more, and the last *)
(* Tick found the Cooldown cooling still                                      *)
CooldownOverdue ==
    /\ Cooling
    /\ hist # <<>>
    /\ hist[1].completed
    /\ hist[1].elapsed >= cooldown_s_(root_) + MaxOverdue

(* a tick that found the Cooldown cooling leaves the countdown at cooldown_s_, *)
(* not at the value counted down to                                            *)
CoolingRestartsCountdown ==
    \A c \in NodesOfKind("Cooldown") : Cooling => ns[c].time_left_ = cooldown_s_(c)

-----------------------------------------------------------------------------
(* IfThenElse and WhileDoElse: the branches *)

(* the children of n ticked in the operation that left the log tr, as positions *)
(* (0 the condition, 1 THEN, 2 ELSE)                                            *)
Branches(n) == {b \in 1..2 : b < size(n)}
RunningBranches(nodes, n) == {b \in Branches(n) : nodes[children_(n)[b + 1]].state_ = RUNNING}

(* the Tick of n that left tr ticked the children at the positions ps only and *)
(* returned what the child at position b returned                              *)
TickedOnly(tr, n, ps) == TickedPositions(tr, n) = ps
Passed(tr, n, b) == ReturnedStatus(tr, n) = ReturnedStatus(tr, children_(n)[b + 1])

(* a Tick of n that evaluates the condition child and then the branch it selects *)
Evaluated(tr, n) ==
    /\ WasTicked(tr, children_(n)[1])
    /\ ReturnedStatus(tr, children_(n)[1]) = RUNNING =>
          TickedOnly(tr, n, {0}) /\ ReturnedStatus(tr, n) = RUNNING
    /\ ReturnedStatus(tr, children_(n)[1]) = SUCCESS =>
          TickedOnly(tr, n, {0, 1}) /\ Passed(tr, n, 1)
    /\ ReturnedStatus(tr, children_(n)[1]) = FAILURE =>
          IF size(n) = 3
          THEN TickedOnly(tr, n, {0, 2}) /\ Passed(tr, n, 2)
          ELSE TickedOnly(tr, n, {0}) /\ ReturnedStatus(tr, n) = FAILURE

(* C32: once the condition child of an IfThenElse selected a branch and the     *)
(* branch reported RUNNING, a Tick ticks that branch only, not the condition    *)
(* child, and returns the status of the branch; any other Tick (the first one,  *)
(* one after the branch finished, one after a Halt, one after a RUNNING         *)
(* condition) evaluates the condition child: SUCCESS ticks THEN, FAILURE ticks  *)
(* ELSE or returns FAILURE when there are 2 children only.                      *)
C32_IfThenElseCommits ==
    [][op' = "Tick" =>
          \A n \in NodesOfKind("IfThenElse") : WasTicked(trace', n) =>
              IF RunningBranches(ns, n) # {}
              THEN \E b \in RunningBranches(ns, n) :
                       TickedOnly(trace', n, {b}) /\ Passed(trace', n, b)
              ELSE Evaluated(trace', n)]_vars

(* the ELSE branch of an IfThenElse finished in a Tick that did not tick the condition *)
C32_Witness ==
    /\ op = "Tick"
    /\ \E n \in NodesOfKind("IfThenElse") :
          /\ size(n) = 3
          /\ PreState(trace, n) = RUNNING
          /\ TickedOnly(trace, n, {2})
          /\ ReturnedStatus(trace, n) = SUCCESS

(* after a Halt of an IfThenElse no branch is RUNNING, so that the next Tick *)
(* evaluates the condition child                                            *)
HaltUncommits ==
    \A n \in NodesOfKind("IfThenElse") : op = "Halt" => RunningBranches(ns, n) = {}

(* the branch the status of the condition child selects *)
SelectedBranch(tr, w) == IF ReturnedStatus(tr, children_(w)[1]) = SUCCESS THEN 1 ELSE 2

TickPos(tr, n) == CHOOSE k \in EventsOf(tr, "Tick", n) : TRUE

(* node old was halted in tr, before node new was ticked if it was (new is 0 *)
(* when no node is to be ticked)                                            *)
HaltedBefore(tr, old, new) ==
    \E h \in EventsOf(tr, "Halt", old) :
        /\ tr[h][3] = RUNNING
        /\ WasTicked(tr, new) => h < TickPos(tr, new)

(* the Tick of WhileDoElse w that left tr, branch b RUNNING before it *)
Reevaluated(tr, w, b) ==
    /\ WasTicked(tr, children_(w)[1])
    /\ ReturnedStatus(tr, children_(w)[1]) = RUNNING =>
          TickedOnly(tr, w, {0}) /\ ReturnedStatus(tr, w) = RUNNING
    /\ ReturnedStatus(tr, children_(w)[1]) # RUNNING =>
          IF SelectedBranch(tr, w) = b
          THEN TickedOnly(tr, w, {0, b}) /\ Passed(tr, w, b)
          ELSE /\ HaltedBefore(tr, children_(w)[b + 1],
                               IF size(w) = 3 THEN children_(w)[3 - b + 1] ELSE 0)
               /\ IF size(w) = 3
                  THEN TickedOnly(tr, w, {0, 3 - b}) /\ Passed(tr, w, 3 - b)
                  ELSE TickedOnly(tr, w, {0}) /\ ReturnedStatus(tr, w) = FAILURE

(* C33: a WhileDoElse ticks its condition child on every tick, also while a      *)
(* branch is RUNNING; when the condition now selects the other branch, the      *)
(* branch that was running is halted before the selected branch is ticked in    *)
(* the same tick, and when root_.Tick has returned the THEN and ELSE branches   *)
(* are never both RUNNING.                                                      *)
C33_WhileDoElseSwitches ==
    [][op' = "Tick" =>
          \A w \in NodesOfKind("WhileDoElse") : WasTicked(trace', w) =>
              /\ IF RunningBranches(ns, w) # {}
                 THEN \E b \in RunningBranches(ns, w) : Reevaluated(trace', w, b)
                 ELSE Evaluated(trace', w)
              /\ \E b \in 1..2 : \A x \in Branches(w) \ {b} :
                    children_(w)[x + 1] \notin mid_running']_vars

(* a WhileDoElse halted its running THEN branch and its ELSE branch is RUNNING *)
C33_Witness ==
    /\ op = "Tick"
    /\ \E w \in NodesOfKind("WhileDoElse") :
          /\ size(w) = 3
          /\ HaltedBefore(trace, children_(w)[2], children_(w)[3])
          /\ WasTicked(trace, children_(w)[3])
          /\ ns[children_(w)[3]].state_ = RUNNING
          /\ ns[children_(w)[2]].state_ = IDLE

-----------------------------------------------------------------------------
(* FSM claims.  fcall holds the last call with the state id on entry and    *)
(* the condition results it was given; the tables are those it ran over,    *)
(* since Update and HandleEvent do not change them.                         *)

SatisfiedIn(list, cv) == {i \in 1..Len(list) : Satisfied(list[i], cv)}

(* the transitions of list that are satisfied and of the greatest priority among those *)
BestIn(list, cv) ==
    {i \in SatisfiedIn(list, cv) :
        \A j \in SatisfiedIn(list, cv) : list[j].Priority <= list[i].Priority}

(* the callbacks of evs whose state is registered, and the id changes *)
Delivered(evs) == SelectSeq(evs, LAMBDA e : e[1] = "Set" \/ e[2] \in states_)

NoSelfTransition ==
    \A id \in FsmIds :
        /\ \A i \in 1..Len(transitions_[id]) : transitions_[id][i].To # id
        /\ \A e \in Events : \A i \in 1..Len(event_transitions_[id][e]) :
              event_transitions_[id][e][i].To # id

\* C12: AddTransition and AddEventTransition with from equal to to end with a configuration
\* error and register nothing: the failed call leaves the three transition tables as they
\* were, and no per-state or event table ever holds a transition from a state to itself.
C12_SelfTransitionRejected ==
    [][/\ fcall'.name = "error" =>
             UNCHANGED <<transitions_, event_transitions_, any_transitions_>>
       /\ NoSelfTransition']_vars

C12_Witness ==
    /\ fcall.name = "error"
    /\ Registered = MaxTransitions

\* C13: when some transition registered from the current state is satisfied (condition
\* absent or true), Update switches to the target of a satisfied one of the greatest
\* priority among the satisfied ones, in whatever order they were registered; unsatisfied
\* transitions of higher priority are skipped.
C13_UpdateHighestPriority ==
    (fcall.name = "Update" /\ SatisfiedIn(transitions_[fcall.current], fcall.cv) # {})
        => \E i \in BestIn(transitions_[fcall.current], fcall.cv) :
              /\ current_state_ = transitions_[fcall.current][i].To
              /\ \E k \in 1..Len(ftrace) : ftrace[k] = <<"Set", current_state_>>

C13_Witness ==
    /\ fcall.name = "Update"
    /\ Len(transitions_[fcall.current]) = 2
    /\ ~Satisfied(transitions_[fcall.current][1], fcall.cv)
    /\ transitions_[fcall.current][1].Priority > transitions_[fcall.current][2].Priority
    /\ transitions_[fcall.current][1].To # transitions_[fcall.current][2].To
    /\ current_state_ = transitions_[fcall.current][2].To

\* C14: Update consults the any-state transitions only when no transition registered from
\* the current state is satisfied: a satisfied per-state transition decides the new state
\* whatever the priorities of the any-state transitions; with none satisfied the satisfied
\* any-state transition of the greatest priority decides; with none at all the state stays.
C14_AnyStateOnlyWhenNoneMatched ==
    fcall.name = "Update" =>
        IF SatisfiedIn(transitions_[fcall.current], fcall.cv) # {}
        THEN \E i \in SatisfiedIn(transitions_[fcall.current], fcall.cv) :
                current_state_ = transitions_[fcall.current][i].To
        ELSE IF SatisfiedIn(any_transitions_, fcall.cv) # {}
        THEN \E i \in BestIn(any_transitions_, fcall.cv) :
                current_state_ = any_transitions_[i].To
        ELSE current_state_ = fcall.current /\ \A k \in 1..Len(ftrace) : ftrace[k][1] # "Set"

C14_Witness ==
    /\ fcall.name = "Update"
    /\ Len(transitions_[fcall.current]) = 1
    /\ Len(any_transitions_) = 1
    /\ Satisfied(transitions_[fcall.current][1], fcall.cv)
    /\ Satisfied(any_transitions_[1], fcall.cv)
    /\ any_transitions_[1].Priority > transitions_[fcall.current][1].Priority
    /\ any_transitions_[1].To # transitions_[fcall.current][1].To
    /\ current_state_ = transitions_[fcall.current][1].To

(* the positions of ftrace at which current_state_ was assigned *)
SetEvents == {k \in 1..Len(ftrace) : ftrace[k][1] = "Set"}

(* Update fired at most one transition and the calls came in the order OnExit(old), *)
(* id change, OnEnter(new), Update(new); without a transition only Update(current)  *)
UpdateCallOrder ==
    /\ Cardinality(SetEvents) <= 1
    /\ IF SetEvents = {}
       THEN /\ current_state_ = fcall.current
            /\ ftrace = Delivered(<< <<"Update", fcall.current>> >>)
       ELSE ftrace = Delivered(<< <<"OnExit", fcall.current>>, <<"Set", current_state_>>,
                                  <<"OnEnter", current_state_>>, <<"Update", current_state_>> >>)

\* C15: when Update fires a transition the calls happen in the order OnExit of the old
\* state, change of the current state id, OnEnter of the new state, Update of the new state;
\* the old state receives no Update in that tick; at most one transition fires per Update;
\* when none fires only the current state's Update is called.
C15_UpdateOrder ==
    fcall.name = "Update" =>
        /\ UpdateCallOrder
        /\ SetEvents # {} =>
              \A k \in 1..Len(ftrace) : ftrace[k] # <<"Update", fcall.current>>

\* C16: HandleEvent considers the event transitions registered for the current state and
\* the given event name only; with a satisfied candidate it switches to the target of one
\* of the greatest priority among the satisfied ones (OnExit of the old state, id change,
\* OnEnter of the new state, no Update); with none the state is unchanged and no state
\* callback runs.
C16_HandleEventMaxPriority ==
    fcall.name = "HandleEvent" =>
        IF SatisfiedIn(event_transitions_[fcall.current][fcall.event_name], fcall.cv) = {}
        THEN current_state_ = fcall.current /\ ftrace = <<>>
        ELSE \E i \in BestIn(event_transitions_[fcall.current][fcall.event_name], fcall.cv) :
                /\ current_state_ = event_transitions_[fcall.current][fcall.event_name][i].To
                /\ ftrace = Delivered(<< <<"OnExit", fcall.current>>,
                                         <<"Set", current_state_>>,
                                         <<"OnEnter", current_state_>> >>)

C16_Witness ==
    /\ fcall.name = "HandleEvent"
    /\ Len(event_transitions_[fcall.current][fcall.event_name]) = 2
    /\ \A i \in 1..2 :
          Satisfied(event_transitions_[fcall.current][fcall.event_name][i], fcall.cv)
    /\ event_transitions_[fcall.current][fcall.event_name][1].Priority
          > event_transitions_[fcall.current][fcall.event_name][2].Priority
    /\ event_transitions_[fcall.current][fcall.event_name][1].To
          # event_transitions_[fcall.current][fcall.event_name][2].To
    /\ current_state_ = event_transitions_[fcall.current][fcall.event_name][1].To
    /\ {fcall.current, current_state_} \subseteq states_

\* C17: the current state id of an FSM is always the id of a registered state, after
\* construction and after every call.
C17_CurrentStateRegistered == current_state_ \in states_

-----------------------------------------------------------------------------
(* Planner.CreatePlan called directly on a leaf goal *)

PlannedLeaf == planned.goal # 0 /\ ~GoalDefs[planned.goal].is_composite_

(* C18: CreatePlan on a leaf goal that the world state satisfies already returns *)
(* the empty plan of cost 0 bound to that goal, and the requirements of no       *)
(* action were evaluated (effects and costs are only evaluated after them): no   *)
(* node was dequeued and nothing was put into the open or the closed set.        *)
C18_SatisfiedGoalEmptyPlan ==
    (PlannedLeaf /\ IsSatisfied(planned.goal, world_state_)) =>
        /\ planned.plan = <<[Goal |-> planned.goal, Actions |-> <<>>, Cost |-> 0]>>
        /\ planned.evals = 0
        /\ planned.iterations = 0
        /\ planned.open = <<>>
        /\ planned.closed = <<>>

C18_Witness ==
    /\ PlannedLeaf
    /\ IsSatisfied(planned.goal, world_state_)
    /\ Len(available_actions_) = MaxActions
    /\ planned.plan # <<>>

(* the plan's actions applied in plan order from ws: the state reached, the sum of *)
(* the costs at the states the actions are applied to, and whether each action's   *)
(* static requirements held in the state it was applied to                         *)
RECURSIVE Replay(_, _, _, _, _)
Replay(ws, actions, i, cost, ok) ==
    IF i > Len(actions) THEN [ws |-> ws, cost |-> cost, ok |-> ok]
    ELSE Replay(ApplyEffects(ws, GetStaticEffects(actions[i], ws)), actions, i + 1,
                cost + GetCost(actions[i], ws),
                ok /\ SatisfiesRequirements(ws, GetStaticRequirements(actions[i], ws)))

Sound(replayed, plan) ==
    /\ replayed.ok
    /\ IsSatisfied(plan.Goal, replayed.ws)
    /\ plan.Cost = replayed.cost

(* C19: a plan CreatePlan returns for a leaf goal is bound to that goal, uses the *)
(* available actions only, and is sound: replayed from the given world state each *)
(* action's static requirements hold where it is applied, the last state          *)
(* satisfies the goal and Cost is the sum of the costs at the states of           *)
(* application.                                                                   *)
C19_PlanSound ==
    (PlannedLeaf /\ planned.plan # <<>>) =>
        /\ planned.plan[1].Goal = planned.goal
        /\ \A i \in 1..Len(planned.plan[1].Actions) :
              \E j \in 1..Len(available_actions_) :
                  available_actions_[j] = planned.plan[1].Actions[i]
        /\ Sound(Replay(world_state_, planned.plan[1].Actions, 1, 0, TRUE), planned.plan[1])

(* the example: state {hasWeapon: false}, the one action GetWeapon (sets hasWeapon, *)
(* cost 1), goal Armed (requires hasWeapon): a plan of 1 action and cost 1          *)
C19_Witness ==
    /\ planned.goal = 4
    /\ ~world_state_["hasWeapon"]
    /\ available_actions_ = <<1>>
    /\ planned.plan = <<[Goal |-> 4, Actions |-> <<1>>, Cost |-> 1]>>

(* the costs of reaching the goal from ws by one more available action, given the *)
(* least costs d known so far: d[ws] is {} (no way known) or {the least cost}     *)
OneMore(d, ws) ==
    UNION {{GetCost(available_actions_[i], ws) + c :
               c \in d[ApplyEffects(ws, GetStaticEffects(available_actions_[i], ws))]} :
           i \in {j \in 1..Len(available_actions_) :
                    SatisfiesRequirements(ws, GetStaticRequirements(available_actions_[j], ws))}}

Least(costs) == {c \in costs : \A x \in costs : c <= x}

(* the least total cost of an executable sequence of available actions that ends *)
(* in a state satisfying the goal, for every start state                         *)
RECURSIVE Cheapest(_)
CheapestStep(d, improved) == IF improved = d THEN d ELSE Cheapest(improved)

Cheapest(d) == CheapestStep(d, [ws \in DOMAIN d |-> Least(d[ws] \cup OneMore(d, ws))])

AtGoal(goal) == [ws \in [WorldKeys -> BOOLEAN] |-> IF IsSatisfied(goal, ws) THEN {0} ELSE {}]

(* C37: the plan CreatePlan returns for a leaf goal is cost-optimal: no executable *)
(* sequence of available actions that ends in a goal-satisfying state has a        *)
(* strictly lower total cost, whatever the weights of the goal's requirements.     *)
C37_PlanCostOptimal ==
    (PlannedLeaf /\ planned.plan # <<>>) =>
        \A c \in Cheapest(AtGoal(planned.goal))[world_state_] : planned.plan[1].Cost <= c

(* the part that holds: with requirement weights of 1 the plan returned is optimal *)
UnitWeightPlanOptimal ==
    (PlannedLeaf /\ planned.plan # <<>>
        /\ \A key \in DOMAIN GoalDefs[planned.goal].RequirementsMap :
              GetRequirementWeight(planned.goal, key) = 1) =>
        \A c \in Cheapest(AtGoal(planned.goal))[world_state_] : planned.plan[1].Cost <= c

(* KillEnemyNow planned with Ambush (cost 4) although GetWeapon and Attack cost 3 *)
DearPlanReturned ==
    /\ planned.goal = 6
    /\ world_state_["rested"]
    /\ available_actions_ = <<1, 2, 5>>
    /\ planned.plan = <<[Goal |-> 6, Actions |-> <<5>>, Cost |-> 4]>>

(* the world states one available action leads to from ws *)
Successors(ws) ==
    {ApplyEffects(ws, GetStaticEffects(available_actions_[i], ws)) :
        i \in {j \in 1..Len(available_actions_) :
                 SatisfiesRequirements(ws, GetStaticRequirements(available_actions_[j], ws))}}

(* the world states some sequence of the available actions leads to from set *)
RECURSIVE Reachable(_)
ReachableStep(set, grown) == IF grown = set THEN set ELSE Reachable(grown)

Reachable(set) == ReachableStep(set, set \cup UNION {Successors(ws) : ws \in set})

Unreachable(goal) == \A ws \in Reachable({world_state_}) : ~IsSatisfied(goal, ws)

NoDuplicates(states) ==
    \A i, j \in 1..Len(states) : i # j => ~Equals(states[i], states[j])

(* C20: for a leaf goal that no sequence of the available actions satisfies,      *)
(* CreatePlan returns no plan, having stopped with an empty open set or after     *)
(* max_iterations dequeued nodes, never more; and in any search of a leaf goal no *)
(* world state is expanded twice, equality being by value.                        *)
C20_UnreachableNoPlan ==
    PlannedLeaf =>
        /\ NoDuplicates(planned.expanded)
        /\ planned.iterations <= max_iterations_
        /\ Unreachable(planned.goal) =>
              /\ planned.plan = <<>>
              /\ planned.open = <<>> \/ planned.iterations = max_iterations_

(* GetWeapon and DropWeapon lead back to a closed state; the open set runs empty *)
(* below the cap                                                                 *)
C20_Witness ==
    /\ PlannedLeaf
    /\ Unreachable(planned.goal)
    /\ planned.plan = <<>>
    /\ \E i, j \in 1..Len(available_actions_) :
          available_actions_[i] = 1 /\ available_actions_[j] = 4
    /\ Len(planned.expanded) = 2
    /\ planned.open = <<>>
    /\ planned.iterations < max_iterations_

(* Planner.CreatePlan called directly on a composite goal of two leaf sub-goals *)
PlannedComposite == planned.goal # 0 /\ GoalDefs[planned.goal].is_composite_

SubGoal(i) == GoalDefs[planned.goal].sub_goals_[i]

(* the plan of the first sub-goal from the given world state *)
FirstPlan == LeafSearch(world_state_, SubGoal(1)).plan

(* the given world state advanced by the first sub-plan's actions *)
WorkState == Replay(world_state_, FirstPlan[1].Actions, 1, 0, TRUE).ws

(* the plan of the second sub-goal from the advanced state *)
SecondPlan == LeafSearch(WorkState, SubGoal(2)).plan

(* C23: for a composite goal CreatePlan plans the sub-goals in declared order, the *)
(* second from the given state advanced by the effects of the first sub-plan; the  *)
(* plan returned is bound to the composite goal, its actions are the sub-plans'    *)
(* actions concatenated in that order and its cost the sum of their costs; when a  *)
(* sub-goal has no plan, no plan is returned.                                      *)
C23_CompositePlan ==
    PlannedComposite =>
        IF FirstPlan = <<>> THEN planned.plan = <<>>
        ELSE IF SecondPlan = <<>> THEN planned.plan = <<>>
        ELSE planned.plan = <<[Goal |-> planned.goal,
                               Actions |-> FirstPlan[1].Actions \o SecondPlan[1].Actions,
                               Cost |-> FirstPlan[1].Cost + SecondPlan[1].Cost]>>

(* ArmedThenKill from an unarmed state: GetWeapon for Armed, then Attack alone for *)
(* KillEnemy because the working state holds the weapon already                    *)
C23_Witness ==
    /\ planned.goal = 5
    /\ ~world_state_["hasWeapon"]
    /\ ~world_state_["enemyDead"]
    /\ planned.plan # <<>>
    /\ planned.plan[1].Actions = <<1, 2>>
    /\ planned.plan[1].Cost = FirstPlan[1].Cost + SecondPlan[1].Cost

(* the state the plan returned leads to from the given world state *)
Achieved == Replay(world_state_, planned.plan[1].Actions, 1, 0, TRUE).ws

(* C38: every plan CreatePlan returns for a composite goal achieves it: executing *)
(* the concatenated actions in order from the start state yields a world state in *)
(* which every sub-goal is satisfied, also when the actions planned for a later   *)
(* sub-goal have effects on keys an earlier sub-goal requires.                    *)
C38_CompositePlanAchieves ==
    (PlannedComposite /\ planned.plan # <<>>) => IsSatisfied(planned.goal, Achieved)

(* the part that holds: the plan is executable and achieves the last sub-goal *)
LastSubGoalAchieved ==
    (PlannedComposite /\ planned.plan # <<>>) =>
        /\ Replay(world_state_, planned.plan[1].Actions, 1, 0, TRUE).ok
        /\ IsSatisfied(SubGoal(Len(GoalDefs[planned.goal].sub_goals_)), Achieved)

(* ArmedThenKill planned as GetWeapon, ThrowWeapon: the enemy is dead, the agent *)
(* unarmed                                                                       *)
LaterSubPlanUndoesEarlier ==
    /\ planned.goal = 5
    /\ planned.plan # <<>>
    /\ planned.plan[1].Actions = <<1, 6>>
    /\ ~IsSatisfied(4, Achieved)
    /\ IsSatisfied(1, Achieved)

(* a step of the calls is possible: a call to make, or a call to return from *)
CanGoOn ==
    \/ calls = <<>> /\ planned = NotPlanned
    \/ calls # <<>> /\ (Finished(Innermost) \/ Len(calls) < MaxDepth)

(* the calls go on as long as they can (every step changes the state) *)
Progress == []<>(~CanGoOn) \/ []<><<TRUE>>_vars

(* the call at position k is made for the goal and the state of the call at *)
(* position j                                                               *)
SameCall(j, k) ==
    /\ calls[j].goal = calls[k].goal
    /\ calls[j].current_state = calls[k].current_state

(* C39: Planner.CreatePlan terminates for every goal, returning a plan or no  *)
(* plan, for leaf goals and for composite goals with any number of sub-goals, *)
(* none included.  What a call does is determined by its goal and its state   *)
(* (the actions are fixed), so a call returns only if none of the calls made  *)
(* within it is a call for its own goal and state; and as goals and states    *)
(* are finitely many, the nesting of the calls is then bounded.               *)
C39_CreatePlanReturns ==
    \A j, k \in 1..Len(calls) : j < k => ~SameCall(j, k)

(* the part that holds: the calls for a leaf goal and for a composite goal with *)
(* sub-goals return, with the plan CreatePlan computes in one step              *)
DecomposedGoalsReturn ==
    /\ \A k \in 1..Len(calls) : calls[1].goal \in DecomposedGoals => k <= 2
    /\ planned.goal # 0 =>
          /\ planned.goal \in DecomposedGoals
          /\ planned.plan = CreatePlan(world_state_, planned.goal)

(* a call for a leaf goal or a composite goal with sub-goals returns *)
DecomposedGoalsTerminate ==
    Progress => ((calls # <<>> /\ calls[1].goal \in DecomposedGoals) ~> (calls = <<>>))

(* CreatePlan for the composite goal without sub-goals calls itself for the same *)
(* goal and the same state, again and again                                      *)
SelfCall ==
    /\ Len(calls) = MaxDepth
    /\ \A k \in 1..Len(calls) : calls[k] = calls[1]

(* the second sub-goal has no plan after the first one got its plan *)
SecondSubGoalFails ==
    /\ PlannedComposite
    /\ FirstPlan # <<>>
    /\ FirstPlan[1].Actions # <<>>
    /\ SecondPlan = <<>>
    /\ planned.plan = <<>>

-----------------------------------------------------------------------------
(* Agent.Update: replanning *)

(* the step is an Update; its dt_s is the second entry of the first event *)
UpdateStep == aop' = "Update" /\ atrace' # <<>> /\ atrace'[1][1] = "Update"

(* CreateNewPlan was entered during the operation that left the log t *)
Replanned(t) == \E i \in 1..Len(t) : t[i][1] = "CreateNewPlan"

(* the four reasons to replan, on the agent's fields at the call of Update(dt_s) *)
ReplanDue(dt_s) ==
    \/ current_plan_ = <<>>
    \/ current_plan_[1].Actions = <<>>
    \/ (current_goal_ # 0 /\ IsSatisfied(current_goal_, world_state_))
    \/ planning_cooldown_ - dt_s <= 0

UpdateWithoutReplan ==
    /\ aop = "Update"
    /\ ~Replanned(atrace)
    /\ current_plan_ # <<>>
    /\ planning_cooldown_ > 0

(* the goal FindBestGoal returned during the operation that left the log t *)
Selected(t) == t[CHOOSE i \in 1..Len(t) : t[i][1] = "FindBestGoal"][2]

(* goal g, registered at position i, is the earliest of the unsatisfied goals of *)
(* highest priority in the world state ws                                        *)
BestUnsatisfied(g, i, ws) ==
    /\ goals_[i] = g
    /\ ~IsSatisfied(g, ws)
    /\ \A j \in 1..Len(goals_) :
          ~IsSatisfied(goals_[j], ws) =>
              /\ GetPriority(goals_[j], ws) <= GetPriority(g, ws)
              /\ j < i => GetPriority(goals_[j], ws) < GetPriority(g, ws)

(* C25: a replanning selects the earliest registered goal among the unsatisfied *)
(* goals of highest priority, the priority being evaluated on the live world    *)
(* state; a satisfied goal is never selected; when every goal is satisfied none *)
(* is selected and the agent is left with no plan and no current goal; a goal   *)
(* other than the selected one never becomes the current goal.                  *)
C25_BestGoalSelected ==
    [][(UpdateStep /\ Replanned(atrace')) =>
          /\ Selected(atrace') # 0 =>
                \E i \in 1..Len(goals_) : BestUnsatisfied(Selected(atrace'), i, world_state_)
          /\ Selected(atrace') = 0 =>
                /\ \A i \in 1..Len(goals_) : IsSatisfied(goals_[i], world_state_)
                /\ current_plan_' = <<>>
                /\ current_goal_' = 0
          /\ current_goal_' \in {0, Selected(atrace')}]_vars

(* two unsatisfied goals of equal priority: the one registered first was selected *)
(* and its first action is running                                                *)
C25_Witness ==
    /\ aop = "Update"
    /\ Replanned(atrace)
    /\ Len(goals_) = 2
    /\ Selected(atrace) = goals_[1]
    /\ current_goal_ = goals_[1]
    /\ ~IsSatisfied(goals_[2], world_state_)
    /\ GetPriority(goals_[2], world_state_) = GetPriority(goals_[1], world_state_)
    /\ \E a \in Actions : astate[a] = RUNNING

(* Agent.Update: execution of the plan *)

(* the actions ticked during the operation that left the log t, in order *)
TickedActions(t) ==
    SelectSeq([i \in 1..Len(t) |-> IF t[i][1] = "Tick" THEN t[i][2] ELSE 0], LAMBDA a : a # 0)

(* the agent holds a plan with an action left *)
HasNextAction == current_plan_ # <<>> /\ current_plan_[1].Actions # <<>>

(* the static requirements of the plan's next action do not hold on the live state *)
NextActionBlocked ==
    /\ HasNextAction
    /\ ~SatisfiesRequirements(world_state_,
           GetStaticRequirements(current_plan_[1].Actions[1], world_state_))

(* C26: an Update that keeps its plan and finds the static requirements of the   *)
(* plan's next action not holding on the live world state ticks no action,       *)
(* discards the plan and leaves the world state and every action's state as they *)
(* were; an Update entered without a plan replans.                               *)
C26_BlockedActionDiscardsPlan ==
    [][UpdateStep =>
          /\ (~Replanned(atrace') /\ NextActionBlocked) =>
                /\ TickedActions(atrace') = <<>>
                /\ current_plan_' = <<>>
                /\ world_state_' = world_state_
                /\ astate' = astate
          /\ current_plan_ = <<>> => Replanned(atrace')]_vars

(* after such an Update: no replanning, no tick, no plan, the goal still current *)
C26_Witness ==
    /\ aop = "Update"
    /\ ~Replanned(atrace)
    /\ TickedActions(atrace) = <<>>
    /\ current_plan_ = <<>>
    /\ current_goal_ # 0

(* the plan held when Update(dt_s) reaches ExecuteCurrentPlan: the plan made in *)
(* this Update for the goal selected when it replanned, else the plan it held  *)
PlanAtExecution(t) ==
    IF ~Replanned(t) THEN current_plan_
    ELSE IF \E i \in 1..Len(t) : t[i][1] = "NewPlan"
    THEN <<t[CHOOSE i \in 1..Len(t) : t[i][1] = "NewPlan"][2]>>
    ELSE <<>>

(* the statuses returned by the ticks of the operation that left the log t *)
ReturnedStatuses(t) ==
    SelectSeq([i \in 1..Len(t) |-> IF t[i][1] = "Return" THEN t[i][3] ELSE "-"],
              LAMBDA status : status # "-")

Executed(P, ticked, returned) ==
    /\ Len(ticked) <= 1
    /\ Len(returned) = Len(ticked)
    /\ ticked = <<>> => world_state_' = world_state_
    /\ ticked # <<>> =>
          /\ P # <<>>
          /\ P[1].Actions # <<>>
          /\ ticked[1] = P[1].Actions[1]
          /\ returned[1] = SUCCESS =>
                /\ world_state_' = ApplyEffects(world_state_,
                                       GetStaticEffects(ticked[1], world_state_))
                /\ current_plan_' = <<[P[1] EXCEPT !.Actions = Tail(@)]>>
          /\ returned[1] = FAILURE =>
                /\ world_state_' = world_state_
                /\ current_plan_' = <<>>
          /\ returned[1] = RUNNING =>
                /\ world_state_' = world_state_
                /\ current_plan_' = P

(* C27: an Update ticks at most one action, the first action of the plan it    *)
(* holds when it executes; on SUCCESS the action's static effects are applied  *)
(* to the live world state and the action is popped, the rest of the plan      *)
(* keeping its order; on FAILURE the plan is discarded and the world state     *)
(* kept; on RUNNING plan and world state are kept, the action staying the head *)
(* of the plan; without a tick the world state is kept.                        *)
C27_OneActionInPlanOrder ==
    [][UpdateStep =>
          Executed(PlanAtExecution(atrace'), TickedActions(atrace'), ReturnedStatuses(atrace'))]_vars

(* KillEnemy planned as GetWeapon, Attack: GetWeapon succeeded in this Update, its *)
(* effect is in the world state and Attack is the head of the plan                 *)
C27_Witness ==
    /\ aop = "Update"
    /\ TickedActions(atrace) = <<1>>
    /\ ReturnedStatuses(atrace) = <<SUCCESS>>
    /\ current_goal_ = 1
    /\ current_plan_ # <<>>
    /\ current_plan_[1].Actions = <<2>>
    /\ world_state_["hasWeapon"]

(* an Update whose tick returned RUNNING: the action is the head of the plan *)
RunningStaysHead ==
    /\ aop = "Update"
    /\ ReturnedStatuses(atrace) = <<RUNNING>>
    /\ current_plan_ # <<>>
    /\ current_plan_[1].Actions # <<>>
    /\ TickedActions(atrace) = <<current_plan_[1].Actions[1]>>

(* the head action of the plan was started by the agent and is RUNNING *)
HeadRunning == HasNextAction /\ astate[current_plan_[1].Actions[1]] = RUNNING

(* the positions of the log t at which event ev of action a stands *)
ActionEvents(t, ev, a) == {i \in 1..Len(t) : t[i][1] = ev /\ t[i][2] = a}

(* the operation that left the log t ticked the RUNNING action a, and only a, *)
(* without halting it and without starting it again                          *)
Continued(t, a) ==
    /\ TickedActions(t) = <<a>>
    /\ ActionEvents(t, "OnTick", a) # {}
    /\ ActionEvents(t, "Halt", a) = {}
    /\ ActionEvents(t, "OnHalt", a) = {}
    /\ ActionEvents(t, "OnStart", a) = {}

(* the head action is RUNNING, its requirements hold and the goal is unsatisfied *)
MultiFrameAction ==
    /\ HeadRunning
    /\ ~NextActionBlocked
    /\ current_goal_ # 0
    /\ ~IsSatisfied(current_goal_, world_state_)

(* C40: once the head action of the plan was started and reports RUNNING, every *)
(* following Update ticks that same action without halting it or starting it    *)
(* again, as long as its requirements hold and the current goal is unsatisfied, *)
(* also when the action runs for longer than the planning interval.             *)
C40_RunningActionContinues ==
    [][(UpdateStep /\ MultiFrameAction) =>
          Continued(atrace', current_plan_[1].Actions[1])]_vars

(* the part that holds: while the planning cooldown has not run out, the RUNNING *)
(* head action is ticked without being halted or started again                  *)
ContinuesWithinInterval ==
    [][(UpdateStep /\ MultiFrameAction /\ planning_cooldown_ - atrace'[1][2] > 0) =>
          Continued(atrace', current_plan_[1].Actions[1])]_vars

(* an Update that only ticked the RUNNING head action, which is RUNNING still *)
RunningContinued ==
    /\ aop = "Update"
    /\ ~Replanned(atrace)
    /\ HeadRunning
    /\ Continued(atrace, current_plan_[1].Actions[1])

(* an Update whose replanning halted the RUNNING action and whose execution of *)
(* the new plan started the same action again                                  *)
HaltedAndRestarted ==
    /\ aop = "Update"
    /\ Replanned(atrace)
    /\ \E a \in Actions :
          \E i \in ActionEvents(atrace, "OnHalt", a), j \in ActionEvents(atrace, "OnStart", a) : i < j

-----------------------------------------------------------------------------
(* WorldState over compound values *)

(* what a read of the value gives: the scalar, or the contents of the table in h *)
Contents(value, h) == IF IsTable(value) THEN [array |-> h[value.ref]] ELSE value

(* everything read from the world state data_ with the tables as in h *)
ReadAll(data_, h) == [k \in DOMAIN data_ |-> Contents(data_[k], h)]

(* C21: after other = original.Clone(), no SetWild or ApplyEffects on the clone, *)
(* the in-place Effect.Insert and Effect.Remove included, changes any value read *)
(* from the original.                                                            *)
C21_CloneIsolated ==
    [][(cloned /\ wcall'.target = "other" /\ wcall'.name \in {"SetWild", "ApplyEffects"})
          => ReadAll(original', heap') = ReadAll(original, heap)]_vars

(* the scalar part: the entries of the original, references included, stay as they were *)
CloneKeepsEntries ==
    [][(cloned /\ wcall'.target = "other" /\ wcall'.name \in {"SetWild", "ApplyEffects"})
          => original' = original]_vars

(* C36: Planner.CreatePlan leaves the world state passed to it unchanged, for  *)
(* every value kind and every effect, Effect.Insert and Effect.Remove on array *)
(* values included.                                                            *)
C36_PlanningKeepsState ==
    [][wcall'.name = "CreatePlan" => ReadAll(original', heap') = ReadAll(original, heap)]_vars

(* in the agent, whose values are scalars, an Update changes world_state_ only *)
(* when the action it executed returned SUCCESS                               *)
UpdateChangesStateOnSuccess ==
    [][(aop' = "Update" /\ world_state_' # world_state_) =>
          \E k \in 1..Len(ReturnedStatuses(atrace')) : ReturnedStatuses(atrace')[k] = SUCCESS]_vars

(* the entries of the state passed, references included, stay as they were *)
PlanningKeepsEntries ==
    [][wcall'.name = "CreatePlan" => original' = original]_vars

(* CreatePlan was called on a state whose items array now holds an element *)
PlannedOverArray ==
    /\ wcall.name = "CreatePlan"
    /\ ~LoadedAlready(original)
    /\ heap[original["items"].ref] # <<>>

(* same key set and, key by key, the same contents *)
SameContents(this, target) ==
    /\ DOMAIN this = DOMAIN target
    /\ \A k \in DOMAIN this : Contents(this[k], heap) = Contents(target[k], heap)

(* C22: WorldState.Equals is true exactly when the two world states have the same *)
(* key set and, for every key, equal values, compound values being compared by    *)
(* their contents; it is reflexive and symmetric.                                 *)
C22_EqualsByContents ==
    /\ Equals(original, other) <=> SameContents(original, other)
    /\ Equals(original, original)
    /\ Equals(other, other)
    /\ Equals(original, other) <=> Equals(other, original)

(* the part of C22 that holds: reflexive, symmetric, never true on different contents *)
EqualsSound ==
    /\ Equals(original, other) => SameContents(original, other)
    /\ Equals(original, original)
    /\ Equals(other, other)
    /\ Equals(original, other) <=> Equals(other, original)

(* two world states built apart, each holding its own array of the same contents *)
SeparatelyBuiltUnequal ==
    /\ ~cloned
    /\ SameContents(original, other)
    /\ \E k \in DOMAIN original : IsTable(original[k])
    /\ ~Equals(original, other)

-----------------------------------------------------------------------------
(* IfThenElse and WhileDoElse: the number of children *)

(* C28: an IfThenElse or WhileDoElse with fewer than 2 or more than 3 children is *)
(* rejected with a configuration error when its children are added or the tree   *)
(* is built: a tree never holds such a node without an error having been raised, *)
(* and the error is never left to OnTick.                                         *)
C28_WrongSizeRejectedAtBuild ==
    /\ (build.in_tree /\ WrongSize(build)) => build.error \in {"AddChild", "BehaviorTree"}
    /\ build.error # "OnTick"

(* the error is raised once the node is ticked, and only for a wrong size *)
WrongSizeThrowsInOnTick ==
    [][build'.call = "Tick" => (build'.error = "OnTick" <=> WrongSize(build))]_vars

(* a tree holding a node of one child, not ticked yet, no error raised *)
WrongSizeBuilt ==
    /\ build.in_tree
    /\ build.size = 1
    /\ ~build.ticked
    /\ build.error = NONE

====
